---- MODULE Spec2Model ----
(***************************************************************************)
(* Spique: a deque built as a doubly linked chain of ring buffers, with    *)
(* events, closure and chained sources (src/spique.js), over the ring      *)
(* buffer of src/unnamed/part_001 (ringbuffer.js).                         *)
(*                                                                         *)
(* The JavaScript program is single threaded: a public call runs to its    *)
(* end, listeners included, before anything else runs.  The operators      *)
(* below are therefore an interpreter: each takes the whole program state  *)
(* `s` and returns a result record [s, ok, v, e] (the state after the      *)
(* call, whether it returned or threw, the value returned, the error       *)
(* thrown).  Listeners run inside the emitting call, re-entrantly, exactly *)
(* as EventEmitter.emit runs them.  An action of the specification is one  *)
(* public call (or one resumption of an asynchronous feeder).              *)
(***************************************************************************)
EXTENDS Integers, Sequences, FiniteSets, TLC

\* ------------------------------------------------------------------ bounds
\* queues of the model (a source may only feed a higher queue)
NQ == 2
NChain == 3
ChainMaxSize == 1
MaxSteps == 2
MaxSpare == 5
MaxArgs == 2
MaxTTL == 3
\* values the attached iterators of the feed specification yield in all
MaxFed == 4
\* largest `size` given to the constructor (0 = unbounded)
MaxSize == 3
\* largest `size` in the flow specification
FlowMaxSize == 2
\* largest `ringSize` in the flow specification
FlowRingSize == 1
\* largest `ringSize` given to the constructor
MaxRingSize == 2
\* cap on the length of an unbounded queue under direct insertion
MaxLen == 3
\* number of distinct values a direct caller inserts in the deque specification
NumVals == 2
\* number of values ever created in the flow specifications
MaxStamp == 3
\* ring objects per queue that can be live at once
NRings == 6
\* listeners the caller attaches to a queue
MaxUser == 1
\* asynchronous feeders
NTasks == 1
\* values an attached iterator yields
MaxIter == 2
\* suspended feeders per queue at an attach
MaxFeeders == 2
\* values handed to the queues in the closure specification
MaxOnes == 2

\* Number.MAX_SAFE_INTEGER stands for "no limit"; TLC integers are 32 bit
MAX_SAFE_INTEGER == 2147483647
MAX_VALUE == 2147483647

Queues == 1..NQ
Events == {"data", "empty", "full", "free", "close"}

VARIABLES
    queues,   \* queue id -> the closure state of one Spique instance
    tasks,    \* task id -> an attachSource call on an asynchronous iterator
    log,      \* what the last public call emitted and which listeners it ran
    ret,      \* how the last public call ended: [op, q, ok, v, e]
    stamp,    \* number of values created so far (flow specifications)
    abs,      \* the abstract sequence the deque specification compares with
    lost      \* values a feeder took from its source and did not insert

vars == <<queues, tasks, log, ret, stamp, abs, lost>>

\* ----------------------------------------------------- ring buffer (part_001)
\* new RingBuffer(size): head, items, buffer; _above/_below are the links
\* Spique hangs on the ring object (0 = undefined)
RingBuffer(size) ==
    [head |-> 0, items |-> 0, buffer |-> [i \in 1..size |-> 0],
     above |-> 0, below |-> 0]

RB_size(r) == Len(r.buffer)

RB_free(r) == RB_size(r) - r.items

\* push item onto the end of the buffer
RB_push(r, value) ==
    IF r.items < RB_size(r)
    THEN LET pos == (r.head + r.items) % RB_size(r)
         IN [ok |-> TRUE, v |-> 0,
             r |-> [r EXCEPT !.buffer[pos + 1] = value, !.items = @ + 1]]
    ELSE [ok |-> FALSE, v |-> 0, r |-> r]

\* push item onto the start of the buffer
RB_unshift_nowrap(r, value) ==
    IF r.items < RB_size(r)
    THEN LET pos == IF r.head # 0 THEN r.head - 1 ELSE 0
         IN [ok |-> TRUE, v |-> 0,
             r |-> [r EXCEPT !.head = pos, !.buffer[pos + 1] = value,
                             !.items = @ + 1]]
    ELSE [ok |-> FALSE, v |-> 0, r |-> r]
RB_unshift(r, value) ==
    IF r.items < RB_size(r)
    THEN LET pos == IF r.head # 0 THEN r.head - 1 ELSE RB_size(r) - 1
         IN [ok |-> TRUE, v |-> 0,
             r |-> [r EXCEPT !.head = pos, !.buffer[pos + 1] = value,
                             !.items = @ + 1]]
    ELSE [ok |-> FALSE, v |-> 0, r |-> r]

\* pop an item off the end of the buffer
RB_pop(r) ==
    IF r.items = 0
    THEN [ok |-> FALSE, v |-> 0, r |-> r]
    ELSE LET pos == (r.head + (r.items - 1)) % RB_size(r)
         IN [ok |-> TRUE, v |-> r.buffer[pos + 1],
             r |-> [r EXCEPT !.buffer[pos + 1] = 0, !.items = @ - 1]]

\* shift without `if (++head == size) head = 0`
RB_shift_nowrap(r) ==
    IF r.items = 0
    THEN [ok |-> FALSE, v |-> 0, r |-> r]
    ELSE [ok |-> TRUE, v |-> r.buffer[r.head + 1],
          r |-> [r EXCEPT !.buffer[r.head + 1] = 0,
                          !.head = r.head + 1,
                          !.items = @ - 1]]

\* pop an item off the start of the buffer
RB_shift(r) ==
    IF r.items = 0
    THEN [ok |-> FALSE, v |-> 0, r |-> r]
    ELSE [ok |-> TRUE, v |-> r.buffer[r.head + 1],
          r |-> [r EXCEPT !.buffer[r.head + 1] = 0,
                          !.head = IF r.head + 1 = RB_size(r) THEN 0 ELSE r.head + 1,
                          !.items = @ - 1]]

\* peek at the end of the buffer
RB_peek(r) ==
    IF r.items = 0
    THEN [ok |-> FALSE, v |-> 0, r |-> r]
    ELSE [ok |-> TRUE, v |-> r.buffer[((r.head + (r.items - 1)) % RB_size(r)) + 1],
          r |-> r]

\* peek at the start of the buffer
RB_peekStart(r) ==
    IF r.items = 0
    THEN [ok |-> FALSE, v |-> 0, r |-> r]
    ELSE [ok |-> TRUE, v |-> r.buffer[r.head + 1], r |-> r]

\* (the ring also emits data/full/empty/free on itself; Spique attaches no
\* listener to a ring, so those emits call nothing)

\* ------------------------------------------------------ Spique (spique.js)
\* results of a call
Ret(s, v) == [s |-> s, ok |-> TRUE, v |-> v, e |-> ""]
Throw(s, e) == [s |-> s, ok |-> FALSE, v |-> 0, e |-> e]
\* a throw after a value was already taken out of a queue
ThrowHolding(s, e, v) == [s |-> s, ok |-> FALSE, v |-> v, e |-> e]

NoListeners == [ev \in Events |-> <<>>]

\* constructor(size = 0, ringSize = 1024)
Spique(size, ringSize) ==
    [size |-> size, ringSize |-> ringSize,
     headRing |-> 1, tailRing |-> 1, rings |-> 1, items |-> 0,
     closed |-> FALSE, transforms |-> <<>>,
     ring |-> [i \in 1..NRings |-> RingBuffer(ringSize)],
     lst |-> NoListeners]

\* get the current number of items in the queue
length(Q) == Q.items

\* get the current number of free slots in the queue
free(Q) == IF Q.size # 0 THEN Q.size - Q.items ELSE MAX_SAFE_INTEGER - Q.items

\* get the current closed status of the queue
closed_flag(Q) == Q.closed
closed_never(Q) == FALSE
closed(Q) == Q.closed /\ Q.items = 0

\* the ring objects reachable from headRing/tailRing through _above/_below
RECURSIVE Closure(_, _)
Closure(Q, S) ==
    LET T == (S \cup {Q.ring[i].above : i \in S} \cup {Q.ring[i].below : i \in S}) \ {0}
    IN IF T = S THEN S ELSE Closure(Q, T)

Reach(Q) == Closure(Q, {Q.headRing, Q.tailRing} \ {0})

\* `new RingBuffer(ringSize)`: an object no reference leads to
NewRingId(Q) ==
    CHOOSE i \in 1..NRings : i \notin Reach(Q) /\ \A j \in 1..(i - 1) : j \in Reach(Q)

\* the chain from headRing down to tailRing, as ring ids
RECURSIVE ChainFrom(_, _, _)
ChainFrom(Q, i, n) ==
    IF i = 0 \/ n = 0 THEN <<>>
    ELSE IF i = Q.tailRing THEN <<i>>
    ELSE <<i>> \o ChainFrom(Q, Q.ring[i].below, n - 1)

Chain(Q) == ChainFrom(Q, Q.headRing, NRings)

\* the items of one ring, oldest slot first
RingItems(r) == [k \in 1..r.items |-> r.buffer[((r.head + (k - 1)) % RB_size(r)) + 1]]

RECURSIVE Flatten(_, _)
Flatten(Q, ids) ==
    IF ids = <<>> THEN <<>> ELSE RingItems(Q.ring[Head(ids)]) \o Flatten(Q, Tail(ids))

\* the items of the queue, head to tail, read off the rings
Contents(Q) == Flatten(Q, Chain(Q))

\* ------------------------------------------------------------- listeners
\* A listener is a closure; its record holds what the closure captured.
\*   user   a listener of the caller (it only gets counted)
\*   data   source.on("data", s => this[insert](s[Symbol.iterator](), true, ...))
\*   close  source.on("close", () => this.close())
\*   feed   the `feed` closure of a synchronous source; src = 0: an iterator
\*          that still yields `rest`; src = S: the generator of queue S
\*   afeed  the `feed` closure of an asynchronous source holding `next`
Listener(k, once, dst, fwd, at, src, rest, task) ==
    [k |-> k, once |-> once, id |-> 0, dst |-> dst, fwd |-> fwd, at |-> at,
     src |-> src, rest |-> rest, task |-> task]

UserListener == Listener("user", FALSE, 0, TRUE, TRUE, 0, <<>>, 0)
DataListener(dst, fwd, at) == Listener("data", FALSE, dst, fwd, at, 0, <<>>, 0)
CloseListener(dst) == Listener("close", FALSE, dst, TRUE, TRUE, 0, <<>>, 0)
FeedListener(fwd, at, src, rest) == Listener("feed", TRUE, 0, fwd, at, src, rest, 0)
AsyncFeedListener(fwd, at, task) == Listener("afeed", TRUE, 0, fwd, at, 0, <<>>, task)

\* a source handed to attachSource
SpiqueSource(S) == [t |-> "spique", q |-> S, rest |-> <<>>]
IterSource(rest) == [t |-> "iter", q |-> 0, rest |-> rest]
GenOfSpique(S) == [t |-> "iter", q |-> S, rest |-> <<>>]
AsyncSource(rest) == [t |-> "async", q |-> 0, rest |-> rest]

IdleTask == [st |-> "idle", dst |-> 0, fwd |-> TRUE, at |-> TRUE, rest |-> <<>>, val |-> 0]

\* the trace of a public call: "emit" and "call" (an event emitted on q, a
\* listener of the caller run for it), "reject" (attachSource on q ended by a
\* throw), "pull" and "ins" (a feeder of q takes the head v of queue src: it
\* is written when the dequeue starts; the feeder has inserted v; src = 0:
\* v is the value next() of the iterator returned)
Logged(s, t, q, ev) ==
    [s EXCEPT !.log = Append(@, [t |-> t, q |-> q, ev |-> ev, src |-> 0, v |-> 0])]
Moved(s, t, q, src, v) ==
    [s EXCEPT !.log = Append(@, [t |-> t, q |-> q, ev |-> "", src |-> src, v |-> v])]

\* the state test of the newListener handler
InState_flag(Q, ev) ==
    \/ ev = "data" /\ Q.items # 0
    \/ ev = "empty" /\ Q.items = 0
    \/ ev = "full" /\ free(Q) = 0
    \/ ev = "free" /\ free(Q) # 0
    \/ ev = "close" /\ Q.closed
InState(Q, ev) ==
    \/ ev = "data" /\ Q.items # 0
    \/ ev = "empty" /\ Q.items = 0
    \/ ev = "full" /\ free(Q) = 0
    \/ ev = "free" /\ free(Q) # 0
    \/ ev = "close" /\ closed(Q)

\* one step of the pipeline on one value.  A step is a plain function
\* ("fn": value => value + 10, "dbl": value => 2 * value) or a generator
\* function ("gen": it yields value and value + 10)
Applied(f, v) ==
    CASE f = "gen" -> <<v, v + 10>>
      [] f = "dbl" -> <<2 * v>>
      [] OTHER -> <<v + 10>>

\* the transforms taken from the newest to the oldest
RECURSIVE transform_newestfirst(_, _)
transform_newestfirst(trs, values) ==
    IF trs = <<>> THEN values
    ELSE LET f == trs[Len(trs)]
             RECURSIVE Map(_)
             Map(vs) == IF vs = <<>> THEN <<>>
                        ELSE Applied(f, Head(vs)) \o Map(Tail(vs))
         IN transform_newestfirst(SubSeq(trs, 1, Len(trs) - 1), Map(values))

\* apply transforms: the outputs of the pipeline for the values, in order
RECURSIVE transform(_, _)
transform(trs, values) ==
    IF trs = <<>> THEN values
    ELSE LET f == Head(trs)
             RECURSIVE Map(_)
             Map(vs) == IF vs = <<>> THEN <<>>
                        ELSE Applied(f, Head(vs)) \o Map(Tail(vs))
         IN transform(Tail(trs), Map(values))

\* enqueue without the allocation of a new ring
allocTail_never(s, q) == s

\* allocate a new ring (enqueue)
allocTail(s, q) ==
    LET Q == s.q[q]
        below == Q.ring[Q.tailRing].below
        link(r) ==
            LET R0 == IF below = 0 THEN [Q.ring EXCEPT ![r] = RingBuffer(Q.ringSize)]
                      ELSE Q.ring
                R1 == [R0 EXCEPT ![r].above = Q.tailRing]
                R2 == [R1 EXCEPT ![Q.tailRing].below = r]
            IN [s EXCEPT !.q[q].ring = R2, !.q[q].tailRing = r, !.q[q].rings = @ + 1]
    IN IF RB_free(Q.ring[Q.tailRing]) = 0
       THEN link(IF below = 0 THEN NewRingId(Q) ELSE below)
       ELSE s

\* allocate a new ring (enqueueHead)
allocHead(s, q) ==
    LET Q == s.q[q]
        above == Q.ring[Q.headRing].above
        link(r) ==
            LET R0 == IF above = 0 THEN [Q.ring EXCEPT ![r] = RingBuffer(Q.ringSize)]
                      ELSE Q.ring
                R1 == [R0 EXCEPT ![r].below = Q.headRing]
                R2 == [R1 EXCEPT ![Q.headRing].above = r]
            IN [s EXCEPT !.q[q].ring = R2, !.q[q].headRing = r, !.q[q].rings = @ + 1]
    IN IF RB_free(Q.ring[Q.headRing]) = 0
       THEN link(IF above = 0 THEN NewRingId(Q) ELSE above)
       ELSE s

\* the deallocation without `rings--`
retireHead_nocount(s, q) ==
    LET Q == s.q[q]
    IN IF Q.ring[Q.headRing].items = 0 /\ Q.rings > 1
       THEN [s EXCEPT !.q[q].ring[Q.headRing].above = 0,
                      !.q[q].headRing = Q.ring[Q.headRing].below]
       ELSE s

\* deallocate unused buffer (dequeue)
retireHead(s, q) ==
    LET Q == s.q[q]
    IN IF Q.ring[Q.headRing].items = 0 /\ Q.rings > 1
       THEN [s EXCEPT !.q[q].ring[Q.headRing].above = 0,
                      !.q[q].headRing = Q.ring[Q.headRing].below,
                      !.q[q].rings = @ - 1]
       ELSE s

\* dequeueTail without the deallocation
retireTail_keep(s, q) == s

\* deallocate unused buffer (dequeueTail)
retireTail(s, q) ==
    LET Q == s.q[q]
    IN IF Q.ring[Q.tailRing].items = 0 /\ Q.rings > 1
       THEN [s EXCEPT !.q[q].ring[Q.tailRing].below = 0,
                      !.q[q].tailRing = Q.ring[Q.tailRing].above,
                      !.q[q].rings = @ - 1]
       ELSE s

\* peek at the value at the head of the queue
peek_take(s, q) ==
    IF s.q[q].items = 0 THEN Throw(s, "Queue is empty")
    ELSE LET p == RB_shift(s.q[q].ring[s.q[q].headRing])
         IN IF p.ok THEN Ret([s EXCEPT !.q[q].ring[s.q[q].headRing] = p.r], p.v)
            ELSE Throw(s, "No items in buffer")
peek(s, q) ==
    IF s.q[q].items = 0 THEN Throw(s, "Queue is empty")
    ELSE LET p == RB_peekStart(s.q[q].ring[s.q[q].headRing])
         IN IF p.ok THEN Ret(s, p.v) ELSE Throw(s, "No items in buffer")

\* peek at the value at the tail of the queue
peekTail(s, q) ==
    IF s.q[q].items = 0 THEN Throw(s, "Queue is empty")
    ELSE LET p == RB_peek(s.q[q].ring[s.q[q].tailRing])
         IN IF p.ok THEN Ret(s, p.v) ELSE Throw(s, "No items in buffer")

\* ------------------------------------------------- the re-entrant operations
RECURSIVE call(_, _)

\* EventEmitter.emit: the listeners registered when the emit starts are
\* called in order; a throwing listener ends the emit and the throw goes to
\* the emitter's caller
emit(s, q, ev) ==
    call("CallAll", <<Logged(s, "emit", q, ev), q, ev, s.q[q].lst[ev], 1>>)

CallAll(s, q, ev, L, i) ==
    LET next(r) == IF r.ok THEN call("CallAll", <<r.s, q, ev, L, i + 1>>) ELSE r
    IN IF i > Len(L) THEN Ret(s, 0)
       ELSE next(call("CallWrapped", <<s, q, ev, L[i]>>))

\* a once() wrapper removes itself, then calls its listener, and does
\* nothing when it has fired already
CallWrapped(s, q, ev, l) ==
    IF ~l.once THEN call("CallBody", <<s, q, ev, l>>)
    ELSE LET cur == s.q[q].lst[ev]
             at == {j \in 1..Len(cur) : cur[j].once /\ cur[j].id = l.id}
             without(j) == SubSeq(cur, 1, j - 1) \o SubSeq(cur, j + 1, Len(cur))
         IN IF at = {} THEN Ret(s, 0)
            ELSE call("CallBody", <<[s EXCEPT !.q[q].lst[ev] =
                                          without(CHOOSE j \in at : TRUE)],
                                    q, ev, l>>)

\* the body of each kind of listener, called with the emitting queue q
CallBody(s, q, ev, l) ==
    CASE l.k = "user" -> Ret(Logged(s, "call", q, ev), 0)
      [] l.k = "data" -> call("attachSource", <<s, l.dst, GenOfSpique(q), l.fwd, l.at>>)
      [] l.k = "close" -> call("close", <<s, l.dst>>)
      [] l.k = "feed" -> call("feed", <<s, q, l>>)
      [] l.k = "afeed" -> call("asyncFeed", <<s, q, l>>)

\* EventEmitter.on: "newListener" is emitted before the listener is added,
\* and the handler of the constructor calls the listener if the queue is in
\* the state of the event
on(s, q, ev, l) ==
    LET add(r) == IF ~r.ok THEN r
                  ELSE Ret([r.s EXCEPT !.q[q].lst[ev] = Append(@, l)], 0)
    IN add(IF InState(s.q[q], ev) THEN call("CallBody", <<s, q, ev, l>>)
           ELSE Ret(s, 0))

\* prependOnceListener: the wrapper goes to the front of the list
once_prepend(s, q, ev, l) ==
    LET w == [l EXCEPT !.once = TRUE, !.id = s.nid + 1]
        s1 == [s EXCEPT !.nid = @ + 1]
        add(r) == IF ~r.ok THEN r
                  ELSE Ret([r.s EXCEPT !.q[q].lst[ev] = <<w>> \o @], 0)
    IN add(IF InState(s1.q[q], ev) THEN call("CallBody", <<s1, q, ev, w>>)
           ELSE Ret(s1, 0))
once(s, q, ev, l) ==
    call("on", <<[s EXCEPT !.nid = @ + 1], q, ev,
                 [l EXCEPT !.once = TRUE, !.id = s.nid + 1]>>)

\* fire events (enqueue, enqueueHead)
fireInsert_always(s, q) ==
    LET data(r) == IF ~r.ok THEN r ELSE call("emit", <<r.s, q, "data">>)
    IN data(call("emit", <<s, q, "full">>))
fireInsert(s, q) ==
    LET data(r) == IF ~r.ok THEN r
                   ELSE IF r.s.q[q].items = 1 THEN call("emit", <<r.s, q, "data">>)
                   ELSE Ret(r.s, 0)
    IN data(IF free(s.q[q]) = 0 THEN call("emit", <<s, q, "full">>) ELSE Ret(s, 0))

\* fire events (dequeue, dequeueTail)
fireRemove_closefirst(s, q) ==
    LET emptyEv(e) == IF ~e.ok THEN e ELSE call("emit", <<e.s, q, "empty">>)
        freeEv(r) == IF ~r.ok THEN r
                     ELSE IF free(r.s.q[q]) # 0 /\ ~r.s.q[q].closed
                     THEN call("emit", <<r.s, q, "free">>)
                     ELSE Ret(r.s, 0)
    IN freeEv(IF s.q[q].closed THEN emptyEv(call("emit", <<s, q, "close">>))
              ELSE IF s.q[q].items = 0 THEN call("emit", <<s, q, "empty">>)
              ELSE Ret(s, 0))
fireRemove_wasfull(s, q) ==
    LET closeEv(e) == IF ~e.ok THEN e
                      ELSE IF e.s.q[q].closed THEN call("emit", <<e.s, q, "close">>)
                      ELSE Ret(e.s, 0)
        freeEv(r) == IF ~r.ok THEN r
                     ELSE IF free(r.s.q[q]) = 1 /\ ~r.s.q[q].closed
                     THEN call("emit", <<r.s, q, "free">>)
                     ELSE Ret(r.s, 0)
    IN freeEv(IF s.q[q].items = 0 THEN closeEv(call("emit", <<s, q, "empty">>))
              ELSE Ret(s, 0))
fireRemove_closedgetter(s, q) ==
    LET closeEv(e) == IF ~e.ok THEN e
                      ELSE IF e.s.q[q].closed THEN call("emit", <<e.s, q, "close">>)
                      ELSE Ret(e.s, 0)
        freeEv(r) == IF ~r.ok THEN r
                     ELSE IF free(r.s.q[q]) # 0 /\ ~closed(r.s.q[q])
                     THEN call("emit", <<r.s, q, "free">>)
                     ELSE Ret(r.s, 0)
    IN freeEv(IF s.q[q].items = 0 THEN closeEv(call("emit", <<s, q, "empty">>))
              ELSE Ret(s, 0))
fireRemove(s, q) ==
    LET closeEv(e) == IF ~e.ok THEN e
                      ELSE IF e.s.q[q].closed THEN call("emit", <<e.s, q, "close">>)
                      ELSE Ret(e.s, 0)
        freeEv(r) == IF ~r.ok THEN r
                     ELSE IF free(r.s.q[q]) # 0 /\ ~r.s.q[q].closed
                     THEN call("emit", <<r.s, q, "free">>)
                     ELSE Ret(r.s, 0)
    IN freeEv(IF s.q[q].items = 0 THEN closeEv(call("emit", <<s, q, "empty">>))
              ELSE Ret(s, 0))

\* add an item to the tail of the queue (isSource = false)
enqueue_nofull(s, q, value, applyTransforms) ==
    LET push(s1) ==
            LET t == s1.q[q].tailRing
                p == RB_push(s1.q[q].ring[t], value)
            IN IF ~p.ok THEN Throw(s1, "Buffer is full")
               ELSE call("fireInsert", <<[s1 EXCEPT !.q[q].ring[t] = p.r,
                                                    !.q[q].items = @ + 1], q>>)
    IN IF applyTransforms /\ Len(s.q[q].transforms) > 0
       THEN call("attachSource",
                 <<s, q, IterSource(transform(s.q[q].transforms, <<value>>)),
                   TRUE, FALSE>>)
       ELSE IF closed(s.q[q]) THEN Throw(s, "Queue is closed")
       ELSE push(allocTail(s, q))
enqueue_noclosed(s, q, value, applyTransforms) ==
    LET push(s1) ==
            LET t == s1.q[q].tailRing
                p == RB_push(s1.q[q].ring[t], value)
            IN IF ~p.ok THEN Throw(s1, "Buffer is full")
               ELSE call("fireInsert", <<[s1 EXCEPT !.q[q].ring[t] = p.r,
                                                    !.q[q].items = @ + 1], q>>)
    IN IF applyTransforms /\ Len(s.q[q].transforms) > 0
       THEN call("attachSource",
                 <<s, q, IterSource(transform(s.q[q].transforms, <<value>>)),
                   TRUE, FALSE>>)
       ELSE IF free(s.q[q]) = 0 THEN Throw(s, "Queue is full")
       ELSE push(allocTail(s, q))
enqueue(s, q, value, applyTransforms) ==
    LET push(s1) ==
            LET t == s1.q[q].tailRing
                p == RB_push(s1.q[q].ring[t], value)
            IN IF ~p.ok THEN Throw(s1, "Buffer is full")
               ELSE call("fireInsert", <<[s1 EXCEPT !.q[q].ring[t] = p.r,
                                                    !.q[q].items = @ + 1], q>>)
    IN IF applyTransforms /\ Len(s.q[q].transforms) > 0
       THEN call("attachSource",
                 <<s, q, IterSource(transform(s.q[q].transforms, <<value>>)),
                   TRUE, FALSE>>)
       ELSE IF closed(s.q[q]) THEN Throw(s, "Queue is closed")
       ELSE IF free(s.q[q]) = 0 THEN Throw(s, "Queue is full")
       ELSE push(allocTail(s, q))

\* add an item to the head of the queue (isSource = false)
enqueueHead_allocfirst(s, q, value, applyTransforms) ==
    LET unshift(s1) ==
            LET h == s1.q[q].headRing
                p == RB_unshift(s1.q[q].ring[h], value)
            IN IF closed(s1.q[q]) THEN Throw(s1, "Queue is closed")
               ELSE IF free(s1.q[q]) = 0 THEN Throw(s1, "Queue is full")
               ELSE IF ~p.ok THEN Throw(s1, "Buffer is full")
               ELSE call("fireInsert", <<[s1 EXCEPT !.q[q].ring[h] = p.r,
                                                    !.q[q].items = @ + 1], q>>)
    IN IF applyTransforms /\ Len(s.q[q].transforms) > 0
       THEN call("attachSource",
                 <<s, q, IterSource(transform(s.q[q].transforms, <<value>>)),
                   FALSE, FALSE>>)
       ELSE unshift(allocHead(s, q))
enqueueHead(s, q, value, applyTransforms) ==
    LET unshift(s1) ==
            LET h == s1.q[q].headRing
                p == RB_unshift(s1.q[q].ring[h], value)
            IN IF ~p.ok THEN Throw(s1, "Buffer is full")
               ELSE call("fireInsert", <<[s1 EXCEPT !.q[q].ring[h] = p.r,
                                                    !.q[q].items = @ + 1], q>>)
    IN IF applyTransforms /\ Len(s.q[q].transforms) > 0
       THEN call("attachSource",
                 <<s, q, IterSource(transform(s.q[q].transforms, <<value>>)),
                   FALSE, FALSE>>)
       ELSE IF closed(s.q[q]) THEN Throw(s, "Queue is closed")
       ELSE IF free(s.q[q]) = 0 THEN Throw(s, "Queue is full")
       ELSE unshift(allocHead(s, q))

\* target[insert](value, false, applyTransforms)
insert(s, q, fwd, value, applyTransforms) ==
    IF fwd THEN call("enqueue", <<s, q, value, applyTransforms>>)
    ELSE call("enqueueHead", <<s, q, value, applyTransforms>>)

\* remove an item from the head of the queue
dequeue(s, q) ==
    LET h == s.q[q].headRing
        p == RB_shift(s.q[q].ring[h])
        return(r) == IF r.ok THEN Ret(r.s, p.v) ELSE ThrowHolding(r.s, r.e, p.v)
    IN IF s.q[q].items = 0 THEN Throw(s, "Queue is empty")
       ELSE IF ~p.ok THEN Throw(s, "No items in buffer")
       ELSE return(call("fireRemove",
                        <<retireHead([s EXCEPT !.q[q].ring[h] = p.r,
                                               !.q[q].items = @ - 1], q), q>>))

\* remove an item from the tail of the queue
dequeueTail(s, q) ==
    LET t == s.q[q].tailRing
        p == RB_pop(s.q[q].ring[t])
        return(r) == IF r.ok THEN Ret(r.s, p.v) ELSE ThrowHolding(r.s, r.e, p.v)
    IN IF s.q[q].items = 0 THEN Throw(s, "Queue is empty")
       ELSE IF ~p.ok THEN Throw(s, "No items in buffer")
       ELSE return(call("fireRemove",
                        <<retireTail([s EXCEPT !.q[q].ring[t] = p.r,
                                               !.q[q].items = @ - 1], q), q>>))

\* close the queue
close(s, q) ==
    LET s1 == [s EXCEPT !.q[q].closed = TRUE]
    IN IF s1.q[q].items = 0 THEN call("emit", <<s1, q, "close">>) ELSE Ret(s1, 0)

\* the `feed` closure of a synchronous source, registered on queue q.  The
\* generator of a queue S is `while (items) yield this.dequeue()`.
feed(s, q, l) ==
    LET again(i, v) == IF ~i.ok THEN i
                       ELSE call("feed", <<Moved(i.s, "ins", q, 0, v), q,
                                           [l EXCEPT !.rest = Tail(@)]>>)
        moved(i, v) == IF ~i.ok THEN i
                       ELSE call("feed", <<Moved(i.s, "ins", q, l.src, v), q, l>>)
        pulled(d) == IF ~d.ok THEN d
                     ELSE moved(call("insert", <<d.s, q, l.fwd, d.v, l.at>>), d.v)
    IN IF free(s.q[q]) # 0
       THEN IF l.src = 0
            THEN IF l.rest = <<>> THEN Ret(s, 0)
                 ELSE again(call("insert", <<Moved(s, "pull", q, 0, Head(l.rest)), q,
                                             l.fwd, Head(l.rest), l.at>>),
                            Head(l.rest))
            ELSE IF s.q[l.src].items = 0 THEN Ret(s, 0)
                 ELSE pulled(call("dequeue",
                                  <<Moved(s, "pull", q, l.src, peek(s, l.src).v),
                                    l.src>>))
       ELSE call("once", <<s, q, "free", l>>)

\* the `feed` closure of an asynchronous source: it holds `next` and
\* resolves the promise the for-await loop waits on
asyncFeed_resolveearly(s, q, l) ==
    LET resolve(i) ==
            IF ~i.ok
            THEN [i EXCEPT !.s.t[l.task].st = "hung", !.s.t[l.task].val = 0]
            ELSE Ret([i.s EXCEPT !.t[l.task].st = "pull", !.t[l.task].val = 0], 0)
        early(r) == [r EXCEPT !.s.t[l.task].st = "pull"]
    IN IF free(s.q[q]) # 0
       THEN resolve(call("insert", <<s, q, l.fwd, s.t[l.task].val, l.at>>))
       ELSE early(call("once", <<s, q, "free", l>>))
asyncFeed(s, q, l) ==
    LET resolve(i) ==
            IF ~i.ok
            THEN [i EXCEPT !.s.t[l.task].st = "hung", !.s.t[l.task].val = 0]
            ELSE Ret([i.s EXCEPT !.t[l.task].st = "pull", !.t[l.task].val = 0], 0)
    IN IF free(s.q[q]) # 0
       THEN resolve(call("insert", <<s, q, l.fwd, s.t[l.task].val, l.at>>))
       ELSE call("once", <<s, q, "free", l>>)

\* attachSource without `source.on("close", () => this.close())`
attachSource_noclose(s, q, source, forward, applyTransforms) ==
    LET settle(r) == IF ~r.ok THEN Ret(Logged(r.s, "reject", q, r.e), 0)
                     ELSE Ret(r.s, 0)
        t == CHOOSE t \in 1..NTasks : s.t[t].st \in {"idle", "done", "hung"}
    IN CASE source.t = "spique" ->
              settle(call("on", <<s, source.q, "data",
                                  DataListener(q, forward, applyTransforms)>>))
         [] source.t = "iter" ->
              settle(call("feed", <<s, q, FeedListener(forward, applyTransforms,
                                                       source.q, source.rest)>>))
         [] source.t = "async" ->
              Ret([s EXCEPT !.t[t] = [st |-> "pull", dst |-> q, fwd |-> forward,
                                      at |-> applyTransforms, rest |-> source.rest,
                                      val |-> 0]], 0)

\* the iterator run from the tail
iterate_fromtail(s, q, yielded) ==
    LET next(r) == IF ~r.ok THEN r
                   ELSE call("iterate", <<r.s, q, Append(yielded, r.v)>>)
    IN IF s.q[q].items = 0 THEN Ret(s, yielded)
       ELSE next(call("dequeueTail", <<s, q>>))

\* iterator: `while (items) yield this.dequeue()`, run to its end by a
\* for-of loop; `yielded` is what the loop got so far
iterate(s, q, yielded) ==
    LET next(r) == IF ~r.ok THEN r
                   ELSE call("iterate", <<r.s, q, Append(yielded, r.v)>>)
    IN IF s.q[q].items = 0 THEN Ret(s, yielded)
       ELSE next(call("dequeue", <<s, q>>))

\* attach chained source (iterator | generator | Spique).  An async
\* function: what it throws rejects a promise nobody holds.
attachSource(s, q, source, forward, applyTransforms) ==
    LET settle(r) == IF ~r.ok THEN Ret(Logged(r.s, "reject", q, r.e), 0)
                     ELSE Ret(r.s, 0)
        onClose(r) == IF ~r.ok THEN r
                      ELSE call("on", <<r.s, source.q, "close", CloseListener(q)>>)
        t == CHOOSE t \in 1..NTasks : s.t[t].st \in {"idle", "done", "hung"}
    IN CASE source.t = "spique" ->
              settle(onClose(call("on", <<s, source.q, "data",
                                          DataListener(q, forward, applyTransforms)>>)))
         [] source.t = "iter" ->
              settle(call("feed", <<s, q, FeedListener(forward, applyTransforms,
                                                       source.q, source.rest)>>))
         [] source.t = "async" ->
              Ret([s EXCEPT !.t[t] = [st |-> "pull", dst |-> q, fwd |-> forward,
                                      at |-> applyTransforms, rest |-> source.rest,
                                      val |-> 0]], 0)

\* a call of a method or of a listener: the operation named op with the
\* arguments a
call(op, a) ==
    CASE op = "emit" -> emit(a[1], a[2], a[3])
      [] op = "CallAll" -> CallAll(a[1], a[2], a[3], a[4], a[5])
      [] op = "CallWrapped" -> CallWrapped(a[1], a[2], a[3], a[4])
      [] op = "CallBody" -> CallBody(a[1], a[2], a[3], a[4])
      [] op = "on" -> on(a[1], a[2], a[3], a[4])
      [] op = "once" -> once(a[1], a[2], a[3], a[4])
      [] op = "enqueue" -> enqueue(a[1], a[2], a[3], a[4])
      [] op = "enqueueHead" -> enqueueHead(a[1], a[2], a[3], a[4])
      [] op = "insert" -> insert(a[1], a[2], a[3], a[4], a[5])
      [] op = "dequeue" -> dequeue(a[1], a[2])
      [] op = "dequeueTail" -> dequeueTail(a[1], a[2])
      [] op = "close" -> close(a[1], a[2])
      [] op = "attachSource" -> attachSource(a[1], a[2], a[3], a[4], a[5])
      [] op = "feed" -> feed(a[1], a[2], a[3])
      [] op = "asyncFeed" -> asyncFeed(a[1], a[2], a[3])
      [] op = "fireInsert" -> fireInsert(a[1], a[2])
      [] op = "fireRemove" -> fireRemove(a[1], a[2])
      [] op = "iterate" -> iterate(a[1], a[2], a[3])

\* --------------------------------------------------------- public calls
\* the program state a public call starts from
MaxOf(S) == IF S = {} THEN 0 ELSE CHOOSE x \in S : \A y \in S : y <= x

Start ==
    [q |-> queues, t |-> tasks, log |-> <<>>,
     nid |-> MaxOf(UNION {{queues[q].lst[ev][i].id : i \in 1..Len(queues[q].lst[ev])} :
                          q \in DOMAIN queues, ev \in Events})]

\* between public calls: unreachable ring objects are garbage (all garbage
\* looks alike), and the identities of the once() wrappers are renamed to
\* their positions
Collect(Q) ==
    [Q EXCEPT !.ring = [i \in 1..NRings |->
                           IF i \in Reach(Q) THEN Q.ring[i] ELSE RingBuffer(Q.ringSize)],
              !.lst = [ev \in Events |->
                           [i \in 1..Len(Q.lst[ev]) |->
                               [Q.lst[ev][i] EXCEPT !.id = IF Q.lst[ev][i].once THEN i ELSE 0]]]]

\* record how the call ended
Finish(r, op, q) ==
    /\ queues' = [x \in DOMAIN queues |-> Collect(r.s.q[x])]
    /\ tasks' = r.s.t
    /\ log' = r.s.log
    /\ ret' = [op |-> op, q |-> q, ok |-> r.ok, v |-> r.v, e |-> r.e]

\* s.enqueue(v)
Enqueue(q, v) == Finish(enqueue(Start, q, v, TRUE), "enqueue", q)

\* s.enqueueHead(v)
EnqueueHead(q, v) == Finish(enqueueHead(Start, q, v, TRUE), "enqueueHead", q)

\* s.dequeue()
Dequeue(q) == Finish(dequeue(Start, q), "dequeue", q)

\* s.dequeueTail()
DequeueTail(q) == Finish(dequeueTail(Start, q), "dequeueTail", q)

\* s.peek()
Peek(q) == Finish(peek(Start, q), "peek", q)

\* s.peekTail()
PeekTail(q) == Finish(peekTail(Start, q), "peekTail", q)

\* s.close()
Close(q) == Finish(close(Start, q), "close", q)

\* s.on(ev, f) by the caller
On(q, ev) == Finish(on(Start, q, ev, UserListener), "on", q)

\* s.enqueue(source, true) / s.enqueueHead(source, true): attach source
Attach(q, source, fwd) ==
    Finish(attachSource(Start, q, source, fwd, TRUE),
           IF fwd THEN "enqueue" ELSE "enqueueHead", q)

\* for (let x of s): the values the loop got are left in abs
ForOf(q) ==
    LET done(r) == /\ Finish([r EXCEPT !.v = 0], "iterate", q)
                   /\ abs' = IF r.ok THEN r.v ELSE <<>>
    IN done(iterate(Start, q, <<>>))

\* s.transform(f)
Transform(q, f) ==
    Finish(Ret([Start EXCEPT !.q[q].transforms = Append(@, f)], 0), "transform", q)

\* the for-await loop of attachSource gets the next value of the iterator
\* (or its end) and runs the promise executor, which calls feed(this); a
\* throw in the executor leaves the promise pending for ever
forAwait(s, t) ==
    LET T == s.t[t]
        s0 == [s EXCEPT !.t[t].st = "wait", !.t[t].val = Head(T.rest),
                        !.t[t].rest = Tail(T.rest)]
        settle(r) == IF r.ok THEN r ELSE Ret(Logged(r.s, "reject", T.dst, r.e), 0)
    IN IF T.rest = <<>> THEN Ret([s EXCEPT !.t[t].st = "done"], 0)
       ELSE settle(call("asyncFeed", <<s0, T.dst, AsyncFeedListener(T.fwd, T.at, t)>>))

AsyncStep(t) ==
    /\ tasks[t].st = "pull"
    /\ Finish(forAwait(Start, t), "async", tasks[t].dst)

\* ------------------------------------------------------------ bookkeeping
Range(f) == {f[i] : i \in DOMAIN f}

\* every place a value can be: a ring slot, an iterator that still has to
\* yield it, an asynchronous feeder holding it
Places(qs, ts) ==
    (UNION {UNION {Range(qs[q].ring[i].buffer) : i \in Reach(qs[q])} : q \in DOMAIN qs}
     \cup UNION {UNION {UNION {Range(qs[q].lst[ev][i].rest) :
                               i \in 1..Len(qs[q].lst[ev])} : ev \in Events} : q \in DOMAIN qs}
     \cup UNION {Range(ts[t].rest) \cup {ts[t].val} : t \in 1..NTasks}) \ {0}

\* the values that were somewhere before the call, or were handed to it, and
\* are nowhere after it: neither in the program nor returned to the caller nor
\* refused with an exception at the call
Vanished(given) ==
    ((Places(queues, tasks) \cup given)
     \ (Places(queues', tasks') \cup (IF ret'.ok THEN {ret'.v} ELSE given)))

\* ----------------------------------------------- specification: the deque
\* One queue, no source: the direct calls, close() and the caller's
\* listeners, with values drawn from 1..NumVals, beside the abstract
\* sequence `abs` that the same calls build.
NoRet == [op |-> "none", q |-> 0, ok |-> TRUE, v |-> 0, e |-> ""]

Idle ==
    /\ tasks = [t \in 1..NTasks |-> IdleTask]
    /\ log = <<>>
    /\ ret = NoRet
    /\ stamp = 0
    /\ abs = <<>>
    /\ lost = {}

Init ==
    /\ \E sz \in 0..MaxSize, rs \in 1..MaxRingSize :
         queues = [q \in Queues |-> Spique(sz, rs)]
    /\ Idle

\* an unbounded queue is filled up to MaxLen
Room(q) == queues[q].size = 0 => queues[q].items < MaxLen

\* listeners attached to queue 1
RECURSIVE SumLen(_, _)
SumLen(Q, E) ==
    IF E = {} THEN 0
    ELSE LET ev == CHOOSE ev \in E : TRUE IN Len(Q.lst[ev]) + SumLen(Q, E \ {ev})

Users == SumLen(queues[1], Events)

Deque(abs1) == abs' = (IF ret'.ok THEN abs1 ELSE abs) /\ UNCHANGED <<stamp, lost>>

Front(seq) == SubSeq(seq, 1, Len(seq) - 1)

DqEnqueue == \E v \in 1..NumVals : Room(1) /\ Enqueue(1, v) /\ Deque(Append(abs, v))

DqEnqueueHead == \E v \in 1..NumVals : Room(1) /\ EnqueueHead(1, v) /\ Deque(<<v>> \o abs)

DqDequeue == Dequeue(1) /\ Deque(Tail(abs))

DqDequeueTail == DequeueTail(1) /\ Deque(Front(abs))

DqPeek == Peek(1) /\ Deque(abs)

DqPeekTail == PeekTail(1) /\ Deque(abs)

DqClose == Close(1) /\ Deque(abs)

Next ==
    \/ DqEnqueue \/ DqEnqueueHead \/ DqDequeue \/ DqDequeueTail
    \/ DqPeek \/ DqPeekTail \/ DqClose

Spec == Init /\ [][Next]_vars

\* ---------------------------------------------- specification: the events
\* One queue, no source, every value 1 (as in the event tests of test.js):
\* the direct calls, close(), and listeners the caller attaches with on().
Plain == UNCHANGED <<stamp, abs, lost>>

EvEnqueue == Room(1) /\ Enqueue(1, 1) /\ Plain

EvEnqueueHead == Room(1) /\ EnqueueHead(1, 1) /\ Plain

EvDequeue == Dequeue(1) /\ Plain

EvDequeueTail == DequeueTail(1) /\ Plain

EvPeek == Peek(1) /\ Plain

EvPeekTail == PeekTail(1) /\ Plain

EvClose == Close(1) /\ Plain

EvOn == \E ev \in Events : Users < MaxUser /\ On(1, ev) /\ Plain

NextEvents ==
    \/ EvEnqueue \/ EvEnqueueHead \/ EvDequeue \/ EvDequeueTail
    \/ EvPeek \/ EvPeekTail \/ EvClose \/ EvOn

SpecEvents == Init /\ [][NextEvents]_vars

\* ------------------------------------------------ specification: the flow
\* Queues 1..NQ in a forward pipeline, every value distinct (the next
\* stamp): enqueue, dequeue and close() on any queue, and sources attached
\* with enqueue(source, true): iterators, asynchronous iterators, and a
\* lower queue as the source of a higher one.
Stamps(n) == [i \in 1..n |-> stamp + i]

Attached(S, D) ==
    \E i \in 1..Len(queues[S].lst["data"]) :
        queues[S].lst["data"][i].k = "data" /\ queues[S].lst["data"][i].dst = D

Feeders(Q) == Cardinality({i \in 1..Len(Q.lst["free"]) : Q.lst["free"][i].k # "user"})

TaskFree == \E t \in 1..NTasks : tasks[t].st \in {"idle", "done", "hung"}

InitFlow ==
    /\ \E rs \in 1..FlowRingSize :
         queues \in [Queues -> {Spique(sz, rs) : sz \in 0..FlowMaxSize}]
    /\ Idle

\* a call of the flow: it does something (a call that only throws at its
\* caller is left out), and a value is created when the call takes it
Flow(given) ==
    /\ <<queues', tasks', log'>> # <<queues, tasks, <<>>>>
    /\ stamp' = stamp + (IF ret'.ok THEN Cardinality(given) ELSE 0)
    /\ lost' = lost \cup Vanished(given)
    /\ UNCHANGED abs

DoEnqueue ==
    \E q \in Queues : stamp < MaxStamp /\ Enqueue(q, stamp + 1) /\ Flow({stamp + 1})

DoDequeue == \E q \in Queues : Dequeue(q) /\ Flow({})

DoClose == \E q \in Queues : Close(q) /\ Flow({})

DoAttachIter ==
    \E q \in Queues, n \in 1..MaxIter :
        /\ stamp + n <= MaxStamp
        /\ Feeders(queues[q]) < MaxFeeders
        /\ Attach(q, IterSource(Stamps(n)), TRUE)
        /\ Flow(Range(Stamps(n)))

DoAttachAsync ==
    \E q \in Queues, n \in 1..MaxIter :
        /\ stamp + n <= MaxStamp
        /\ TaskFree
        /\ Attach(q, AsyncSource(Stamps(n)), TRUE)
        /\ Flow(Range(Stamps(n)))

DoAttachQueue ==
    \E S \in Queues, D \in Queues :
        /\ S < D
        /\ ~Attached(S, D)
        /\ Attach(D, SpiqueSource(S), TRUE)
        /\ Flow({})

DoAsyncStep == \E t \in 1..NTasks : AsyncStep(t) /\ Flow({})

NextFlow ==
    \/ DoEnqueue \/ DoDequeue \/ DoClose
    \/ DoAttachIter \/ DoAttachAsync \/ DoAttachQueue \/ DoAsyncStep

SpecFlow == InitFlow /\ [][NextFlow]_vars

\* --------------------------------------------- specification: the closure
\* Queues 1..NQ with every way an item can get into a queue: enqueue and
\* enqueueHead, a transform (one step, on one queue), iterators,
\* asynchronous iterators and a lower queue attached as sources, beside
\* dequeue and close().  Every value is 1; `stamp` counts the values handed
\* to the queues, and a transform doubles them at most.
Ones(n) == [i \in 1..n |-> 1]

InitClose ==
    /\ \E sz \in 0..FlowMaxSize : queues = [q \in Queues |-> Spique(sz, FlowRingSize)]
    /\ Idle

Budget(n) == stamp + n <= MaxOnes /\ 2 * (stamp + n) <= NRings

Closing(n) ==
    /\ <<queues', tasks', log'>> # <<queues, tasks, <<>>>>
    /\ stamp' = stamp + n
    /\ UNCHANGED <<abs, lost>>

ClEnqueue == \E q \in Queues : Budget(1) /\ Enqueue(q, 1) /\ Closing(1)

ClEnqueueHead == \E q \in Queues : Budget(1) /\ EnqueueHead(q, 1) /\ Closing(1)

ClDequeue == \E q \in Queues : Dequeue(q) /\ Closing(0)

ClClose == \E q \in Queues : Close(q) /\ Closing(0)

ClTransform ==
    \E q \in Queues, f \in {"fn", "gen"} :
        /\ \A p \in Queues : queues[p].transforms = <<>>
        /\ Transform(q, f)
        /\ Closing(0)

ClAttachIter ==
    \E q \in Queues, n \in 1..MaxIter :
        /\ Budget(n)
        /\ Feeders(queues[q]) < MaxFeeders
        /\ Attach(q, IterSource(Ones(n)), TRUE)
        /\ Closing(n)

ClAttachAsync ==
    \E q \in Queues, n \in 1..MaxIter :
        /\ Budget(n)
        /\ TaskFree
        /\ Attach(q, AsyncSource(Ones(n)), TRUE)
        /\ Closing(n)

ClAttachQueue ==
    \E S \in Queues, D \in Queues :
        /\ S < D
        /\ ~Attached(S, D)
        /\ Attach(D, SpiqueSource(S), TRUE)
        /\ Closing(0)

ClAsyncStep == \E t \in 1..NTasks : AsyncStep(t) /\ Closing(0)

NextClose ==
    \/ ClEnqueue \/ ClEnqueueHead \/ ClDequeue \/ ClClose \/ ClTransform
    \/ ClAttachIter \/ ClAttachAsync \/ ClAttachQueue \/ ClAsyncStep

SpecClose == InitClose /\ [][NextClose]_vars

\* ----------------------------------------------- specification: the chain
\* Queues 1..NChain, each attached as the source of the next, every value
\* distinct: enqueue and dequeue on any queue, an iterator as a source of
\* any queue.
Chain3 == 1..NChain

InitChain ==
    /\ queues \in [Chain3 -> {Spique(sz, FlowRingSize) : sz \in 0..ChainMaxSize}]
    /\ Idle

ChEnqueue ==
    \E q \in Chain3 : stamp < MaxStamp /\ Enqueue(q, stamp + 1) /\ Flow({stamp + 1})

ChDequeue == \E q \in Chain3 : Dequeue(q) /\ Flow({})

ChAttachIter ==
    \E q \in Chain3, n \in 1..MaxIter :
        /\ stamp + n <= MaxStamp
        /\ Feeders(queues[q]) < MaxFeeders
        /\ Attach(q, IterSource(Stamps(n)), TRUE)
        /\ Flow(Range(Stamps(n)))

ChAttachQueue ==
    \E S \in Chain3, D \in Chain3 :
        /\ D = S + 1
        /\ ~Attached(S, D)
        /\ Attach(D, SpiqueSource(S), TRUE)
        /\ Flow({})

NextChain == ChEnqueue \/ ChDequeue \/ ChAttachIter \/ ChAttachQueue

SpecChain == InitChain /\ [][NextChain]_vars

\* ------------------------------------------- specification: the transforms
\* One queue with up to MaxSteps transforms, every value handed to it
\* distinct (the next stamp): enqueue and enqueueHead of a value, an iterator
\* of two or more values as a source, dequeue, and transform(f).
InitTransform ==
    /\ \E sz \in 0..MaxSize, rs \in 1..MaxRingSize : queues = <<Spique(sz, rs)>>
    /\ Idle

\* the ring objects of the model suffice for what the call can insert
Fits(vs) ==
    queues[1].size = 0
        => Cardinality(Reach(queues[1])) + Len(transform(queues[1].transforms, vs)) <= NRings

Handed(n) ==
    /\ <<queues', log'>> # <<queues, <<>>>>
    /\ stamp' = stamp + n
    /\ UNCHANGED <<abs, lost>>

TrTransform ==
    \E f \in {"fn", "dbl", "gen"} :
        /\ Len(queues[1].transforms) < MaxSteps
        /\ Transform(1, f)
        /\ Handed(0)

TrEnqueue ==
    /\ stamp < MaxStamp /\ Fits(Stamps(1))
    /\ Feeders(queues[1]) < MaxFeeders
    /\ Enqueue(1, stamp + 1)
    /\ Handed(1)

TrEnqueueHead ==
    /\ stamp < MaxStamp /\ Fits(Stamps(1))
    /\ Feeders(queues[1]) < MaxFeeders
    /\ EnqueueHead(1, stamp + 1)
    /\ Handed(1)

TrAttachIter ==
    \E n \in 2..MaxIter :
        /\ stamp + n <= MaxStamp /\ Fits(Stamps(n))
        /\ Feeders(queues[1]) < MaxFeeders
        /\ Attach(1, IterSource(Stamps(n)), TRUE)
        /\ Handed(n)

TrDequeue == Dequeue(1) /\ Handed(0)

NextTransform ==
    TrTransform \/ TrEnqueue \/ TrEnqueueHead \/ TrAttachIter \/ TrDequeue

SpecTransform == InitTransform /\ [][NextTransform]_vars

\* --------------------------------------------- specification: the iterator
\* One queue without sources, every value distinct (the next stamp): the
\* direct calls, close(), and a for-of loop over the queue run to its end.
ItCall(n) == stamp' = stamp + n /\ UNCHANGED <<abs, lost>>

ItEnqueue == stamp < MaxStamp /\ Enqueue(1, stamp + 1) /\ ret'.ok /\ ItCall(1)

ItEnqueueHead == stamp < MaxStamp /\ EnqueueHead(1, stamp + 1) /\ ret'.ok /\ ItCall(1)

ItDequeue == Dequeue(1) /\ ret'.ok /\ ItCall(0)

ItDequeueTail == DequeueTail(1) /\ ret'.ok /\ ItCall(0)

ItClose == Close(1) /\ ItCall(0)

ItForOf == ForOf(1) /\ UNCHANGED <<stamp, lost>>

NextIterate ==
    \/ ItEnqueue \/ ItEnqueueHead \/ ItDequeue \/ ItDequeueTail
    \/ ItClose \/ ItForOf

SpecIterate == InitTransform /\ [][NextIterate]_vars

\* ------------------------------- the spare-ring, TTL variant (part_002)
\* new Ringbuffer(size) of part_000: head, items, buffer; nextRing/prevRing
\* are the links the queue hangs on the ring object (0 = undefined)
Ringbuffer(size) ==
    [head |-> 0, items |-> 0, buffer |-> [i \in 1..size |-> 0],
     nextRing |-> 0, prevRing |-> 0]

\* get the number of free slots
available(r) == Len(r.buffer) - r.items

\* push item onto the end of the buffer (called with a free slot only)
Ringbuffer_push(r, value) ==
    [r EXCEPT !.buffer[((r.head + r.items) % Len(r.buffer)) + 1] = value,
              !.items = @ + 1]

\* push item onto the start of the buffer (called with a free slot only)
Ringbuffer_unshift(r, value) ==
    LET pos == IF r.head # 0 THEN r.head - 1 ELSE Len(r.buffer) - 1
    IN [r EXCEPT !.head = pos, !.buffer[pos + 1] = value, !.items = @ + 1]

\* pop an item off the end of the buffer (called on a ring with items only)
Ringbuffer_pop(r) ==
    LET pos == (r.head + (r.items - 1)) % Len(r.buffer)
    IN [v |-> r.buffer[pos + 1],
        r |-> [r EXCEPT !.buffer[pos + 1] = 0, !.items = @ - 1]]

\* pop an item off the start of the buffer
Ringbuffer_shift(r) ==
    [v |-> r.buffer[r.head + 1],
     r |-> [r EXCEPT !.buffer[r.head + 1] = 0,
                     !.head = IF r.head + 1 = Len(r.buffer) THEN 0 ELSE r.head + 1,
                     !.items = @ - 1]]

\* constructor(maxItems, ringSize, _async = true): no maxItems is
\* Math.floor(Number.MAX_VALUE), here a number no count of the model reaches.
\* `pending` is a Spique of closures, taken from its head in the order they
\* were pushed: [insert, value]
TTLSpique(maxItems, ringSize) ==
    [maxItems |-> IF maxItems = 0 THEN MAX_VALUE ELSE maxItems,
     ringSize |-> ringSize,
     firstRing |-> 1, lastRing |-> 1, spareRing |-> 0, rings |-> 1, items |-> 0,
     lifetimeIn |-> 0, lifetimeOut |-> 0, ttl |-> 0, pending |-> <<>>,
     closed |-> FALSE,
     ring |-> [i \in 1..NRings |-> Ringbuffer(ringSize)]]

\* the ring objects a reference leads to
RECURSIVE Held(_, _)
Held(P, S) ==
    LET T == S \cup (({P.ring[i].nextRing : i \in S} \cup {P.ring[i].prevRing : i \in S}) \ {0})
    IN IF T = S THEN S ELSE Held(P, T)

Live(P) == Held(P, {P.firstRing, P.lastRing, P.spareRing} \ {0})

\* allocate a new ring, or return the spare if available: the state with
\* the ring at id
allocateRing(s) ==
    IF s.q.spareRing # 0
    THEN [s |-> [s EXCEPT !.q.spareRing = 0], id |-> s.q.spareRing]
    ELSE LET id == CHOOSE i \in 1..NRings : i \notin Live(s.q)
         IN [s |-> [s EXCEPT !.q.ring[id] = Ringbuffer(s.q.ringSize)], id |-> id]

\* mark the buffer as closed: this.close() without a TTL
closeNow(s) ==
    LET s1 == [s EXCEPT !.q.closed = TRUE]
    IN IF s1.q.items = 0 THEN Logged(s1, "emit", 1, "close") ELSE s1

\* this.close(newTTL)
closeTTL(s, newTTL) ==
    LET s1 == [s EXCEPT !.q.ttl = newTTL]
        reached == IF newTTL = s.q.lifetimeIn
                   THEN closeNow(Logged(s1, "emit", 1, "ttl-in")) ELSE s1
        out == IF newTTL = s.q.lifetimeOut
               THEN Logged(reached, "emit", 1, "ttl-out") ELSE reached
    IN IF newTTL = 0 THEN Ret(closeNow(s), 0)
       ELSE IF newTTL < s.q.lifetimeIn
            THEN Throw(s1, "Attempted to set TTL lower than lifetime inserts")
       ELSE Ret(IF out.q.closed /\ out.q.items = 0
                THEN Logged(out, "emit", 1, "close") ELSE out, 0)

\* ttl & lifetime counters of an insert: `if (ttl && ttl === ++lifetimeIn)`
countIn(s) ==
    IF s.q.ttl = 0 THEN s
    ELSE LET s1 == [s EXCEPT !.q.lifetimeIn = @ + 1]
         IN IF s1.q.ttl = s1.q.lifetimeIn
            THEN Logged(closeNow(s1), "emit", 1, "ttl-in") ELSE s1

\* ttl & lifetime counters of a removal: `if (ttl && ttl === ++lifetimeOut)`
countOut(s) ==
    IF s.q.ttl = 0 THEN s
    ELSE LET s1 == [s EXCEPT !.q.lifetimeOut = @ + 1]
         IN IF s1.q.ttl = s1.q.lifetimeOut
            THEN Logged(s1, "emit", 1, "ttl-out") ELSE s1

\* add another ring if necessary (push)
ringAtEnd(s) ==
    LET link(a) ==
            [a.s EXCEPT !.q.ring[s.q.lastRing].nextRing = a.id,
                        !.q.ring[a.id].prevRing = s.q.lastRing,
                        !.q.lastRing = a.id, !.q.rings = @ + 1]
    IN IF available(s.q.ring[s.q.lastRing]) = 0 THEN link(allocateRing(s)) ELSE s

\* add another ring if necessary (unshift)
ringAtStart(s) ==
    LET link(a) ==
            [a.s EXCEPT !.q.ring[a.id].nextRing = s.q.firstRing,
                        !.q.ring[s.q.firstRing].prevRing = a.id,
                        !.q.firstRing = a.id, !.q.rings = @ + 1]
    IN IF available(s.q.ring[s.q.firstRing]) = 0 THEN link(allocateRing(s)) ELSE s

\* push item(s) onto the end of the buffer
RECURSIVE push(_, _)
push(s, values) ==
    LET ready == s.q.items = 0
        put(a) == [a EXCEPT !.q.ring[a.q.lastRing] = Ringbuffer_push(@, Head(values)),
                            !.q.items = @ + 1]
        after(r) == IF ~r.ok THEN r
                    ELSE IF ready THEN Ret(Logged(r.s, "emit", 1, "ready"), 0) ELSE r
        rest(b) == IF Len(values) > 1 THEN push(b, Tail(values))
                   ELSE IF b.q.items = b.q.maxItems
                        THEN Ret(Logged(b, "emit", 1, "full"), 0) ELSE Ret(b, 0)
    IN IF s.q.closed THEN Throw(s, "Buffer is closed")
       ELSE IF s.q.items >= s.q.maxItems THEN Throw(s, "Buffer is full")
       ELSE after(rest(countIn(put(ringAtEnd(s)))))

\* push item(s) onto the start of the buffer
RECURSIVE unshift(_, _)
unshift(s, values) ==
    LET ready == s.q.items = 0
        put(a) == [a EXCEPT !.q.ring[a.q.firstRing] = Ringbuffer_unshift(@, Head(values)),
                            !.q.items = @ + 1]
        after(r) == IF ~r.ok THEN r
                    ELSE IF ready THEN Ret(Logged(r.s, "emit", 1, "ready"), 0) ELSE r
        rest(b) == IF Len(values) > 1 THEN unshift(b, Tail(values))
                   ELSE IF b.q.items = b.q.maxItems
                        THEN Ret(Logged(b, "emit", 1, "full"), 0) ELSE Ret(b, 0)
    IN IF s.q.closed THEN Throw(s, "Buffer is closed")
       ELSE IF s.q.items >= s.q.maxItems THEN Throw(s, "Buffer is full")
       ELSE after(rest(countIn(put(ringAtStart(s)))))

\* this[insert](value) of a closure of pending
insertBy(s, c) == IF c.insert = "push" THEN push(s, <<c.value>>) ELSE unshift(s, <<c.value>>)

\* `while (pending && !this.isFull() && !pending.isEmpty()) pending.shift()()`:
\* a closure rejects a promise nobody holds when the buffer is closed, and
\* inserts its value otherwise
RECURSIVE drainPending(_)
drainPending(s) ==
    LET c == Head(s.q.pending)
        s1 == [s EXCEPT !.q.pending = Tail(@)]
        next(r) == IF ~r.ok THEN r ELSE drainPending(Logged(r.s, "resolve", 1, ""))
    IN IF s.q.items = s.q.maxItems \/ s.q.pending = <<>> THEN Ret(s, 0)
       ELSE IF s1.q.closed THEN drainPending(Logged(s1, "reject", 1, "Buffer is closed"))
       ELSE next(insertBy(s1, c))

\* what pop and shift do after the value is out of its ring (`this.items` is
\* not a property of the object: the last test is never true)
removed(s, value) ==
    LET empty(a) == IF a.q.items # 0 THEN a
                    ELSE IF a.q.closed
                         THEN Logged(Logged(a, "emit", 1, "empty"), "emit", 1, "close")
                         ELSE Logged(a, "emit", 1, "empty")
        space(r) == IF ~r.ok THEN ThrowHolding(r.s, r.e, value)
                    ELSE IF r.s.q.items < r.s.q.maxItems /\ ~r.s.q.closed
                         THEN Ret(Logged(r.s, "emit", 1, "space"), value)
                         ELSE Ret(r.s, value)
        room(a) == IF a.q.items < a.q.maxItems THEN space(drainPending(a)) ELSE Ret(a, value)
    IN room(empty(countOut([s EXCEPT !.q.items = @ - 1])))

\* pop an item off the end of the buffer
pop(s) ==
    LET P == s.q
        l == P.lastRing
        t == Ringbuffer_pop(P.ring[l])
        prev == P.ring[l].prevRing
        s1 == [s EXCEPT !.q.ring[l] = t.r]
        \* delete the ring if it's empty and not the last one
        s2 == IF t.r.items = 0 /\ prev # 0
              THEN [s1 EXCEPT !.q.lastRing = prev,
                              !.q.spareRing = s1.q.ring[prev].nextRing,
                              !.q.ring[prev].nextRing = 0,
                              !.q.rings = @ - 1]
              ELSE s1
    IN IF P.ring[l].items = 0 THEN Ret(s, 0) ELSE removed(s2, t.v)

\* pop an item off the start of the buffer
shift(s) ==
    LET P == s.q
        f == P.firstRing
        t == Ringbuffer_shift(P.ring[f])
        next == P.ring[f].nextRing
        s1 == [s EXCEPT !.q.ring[f] = t.r]
        \* delete the ring if it's empty and not the last one
        s2 == IF t.r.items = 0 /\ next # 0
              THEN [s1 EXCEPT !.q.firstRing = next,
                              !.q.spareRing = s1.q.ring[next].prevRing,
                              !.q.ring[next].prevRing = 0,
                              !.q.rings = @ - 1]
              ELSE s1
    IN IF P.ring[f].items = 0 THEN Ret(s, 0) ELSE removed(s2, t.v)

\* push item(s) onto the end (the start) of the buffer when there is space
\* available.  What the call returns is left in e: "promise" (fulfilled) or
\* "undefined"
insertAsync(s, how, value) ==
    LET promise(r) == IF ~r.ok THEN r ELSE [r EXCEPT !.e = "promise"]
    IN IF s.q.items # s.q.maxItems
       THEN promise(insertBy(s, [insert |-> how, value |-> value]))
       ELSE [Ret([s EXCEPT !.q.pending = Append(@, [insert |-> how, value |-> value])], 0)
                EXCEPT !.e = "undefined"]

pushAsync(s, value) == insertAsync(s, "push", value)

unshiftAsync(s, value) == insertAsync(s, "unshift", value)

\* a public call on the one queue of this variant: rings no reference leads
\* to are garbage
Begin == [q |-> queues[1], log |-> <<>>]

End(r, op) ==
    /\ queues' = <<[r.s.q EXCEPT !.ring = [i \in 1..NRings |->
                                             IF i \in Live(r.s.q) THEN r.s.q.ring[i]
                                             ELSE Ringbuffer(r.s.q.ringSize)]]>>
    /\ log' = r.s.log
    /\ ret' = [op |-> op, q |-> 1, ok |-> r.ok, v |-> r.v, e |-> r.e]
    /\ UNCHANGED <<tasks, lost>>

\* ------------------------------------------ specification: the spare ring
\* One queue of the variant, unbounded or bounded, every value distinct (the
\* next stamp): push, unshift, pop and shift of one value; abs is the deque
\* the calls describe.
InitSpare ==
    /\ \E m \in 0..MaxSize, rs \in 1..MaxRingSize : queues = <<TTLSpique(m, rs)>>
    /\ Idle

\* the model has ring objects for the insert, and the deque stays short
RoomSpare == Cardinality(Live(queues[1])) < NRings /\ Len(abs) < MaxLen

SpPush ==
    /\ stamp < MaxSpare /\ RoomSpare
    /\ End(push(Begin, <<stamp + 1>>), "push")
    /\ stamp' = stamp + 1
    /\ abs' = IF ret'.ok THEN Append(abs, stamp + 1) ELSE abs

SpUnshift ==
    /\ stamp < MaxSpare /\ RoomSpare
    /\ End(unshift(Begin, <<stamp + 1>>), "unshift")
    /\ stamp' = stamp + 1
    /\ abs' = IF ret'.ok THEN <<stamp + 1>> \o abs ELSE abs

SpPop ==
    /\ End(pop(Begin), "pop")
    /\ abs' = IF abs = <<>> THEN abs ELSE SubSeq(abs, 1, Len(abs) - 1)
    /\ UNCHANGED stamp

SpShift ==
    /\ End(shift(Begin), "shift")
    /\ abs' = IF abs = <<>> THEN abs ELSE Tail(abs)
    /\ UNCHANGED stamp

NextSpare == SpPush \/ SpUnshift \/ SpPop \/ SpShift

SpecSpare == InitSpare /\ [][NextSpare]_vars

\* ------------------------------------------------ specification: the TTL
\* One queue of the variant, every value distinct (the next stamp): push and
\* unshift of one or more values, pop, shift, close() with and without a
\* TTL, pushAsync and unshiftAsync.  abs counts the values that went into
\* the rings and the values taken out of them.
Counts(i, o) == [in |-> i, out |-> o]

InitTTL ==
    /\ \E m \in 0..FlowMaxSize : queues = <<TTLSpique(m, FlowRingSize)>>
    /\ tasks = [t \in 1..NTasks |-> IdleTask]
    /\ log = <<>> /\ ret = NoRet /\ stamp = 0 /\ lost = {}
    /\ abs = Counts(0, 0)

RoomTTL(k) ==
    /\ stamp + k <= MaxStamp
    /\ Cardinality(Live(queues[1])) + k <= NRings
    /\ Len(queues[1].pending) < MaxFeeders

\* the call got k values; a removal that returns a value took it out
Counted(k) ==
    LET took == IF ret'.op \in {"pop", "shift"} /\ ret'.v # 0 THEN 1 ELSE 0
    IN /\ stamp' = stamp + k
       /\ abs' = Counts(abs.in + (queues'[1].items - queues[1].items) + took,
                        abs.out + took)

TtPush ==
    \E k \in 1..MaxArgs :
        RoomTTL(k) /\ End(push(Begin, Stamps(k)), "push") /\ Counted(k)

TtUnshift ==
    \E k \in 1..MaxArgs :
        RoomTTL(k) /\ End(unshift(Begin, Stamps(k)), "unshift") /\ Counted(k)

TtPop == End(pop(Begin), "pop") /\ Counted(0)

TtShift == End(shift(Begin), "shift") /\ Counted(0)

TtClose ==
    \E n \in 0..MaxTTL : End(closeTTL(Begin, n), "close") /\ Counted(0)

TtPushAsync == RoomTTL(1) /\ End(pushAsync(Begin, stamp + 1), "pushAsync") /\ Counted(1)

TtUnshiftAsync ==
    RoomTTL(1) /\ End(unshiftAsync(Begin, stamp + 1), "unshiftAsync") /\ Counted(1)

NextTTL ==
    \/ TtPush \/ TtUnshift \/ TtPop \/ TtShift \/ TtClose
    \/ TtPushAsync \/ TtUnshiftAsync

SpecTTL == InitTTL /\ [][NextTTL]_vars

\* ------------------------------------------------------------- the claims
Inserts == {"enqueue", "enqueueHead"}
Removals == {"dequeue", "dequeueTail"}
Peeks == {"peek", "peekTail"}

Emitted(l, q, ev) == \E i \in 1..Len(l) : l[i].t = "emit" /\ l[i].q = q /\ l[i].ev = ev
Called(l, q, ev) == \E i \in 1..Len(l) : l[i].t = "call" /\ l[i].q = q /\ l[i].ev = ev

\* C1: with no source and no transform, the calls on the queue return what
\* the abstract sequence returns and leave the items and the length of that
\* sequence: enqueue appends, enqueueHead prepends, dequeue and peek take and
\* read the first element, dequeueTail and peekTail the last; a call the
\* abstract sequence allows (an element to take, a free slot on a queue that
\* is not closed and drained) succeeds.
C1_RefinesDeque ==
    [][/\ Contents(queues'[1]) = abs'
       /\ length(queues'[1]) = Len(abs')
       /\ ret'.op \in {"dequeue", "peek"} /\ abs # <<>> => ret'.ok /\ ret'.v = Head(abs)
       /\ ret'.op \in {"dequeueTail", "peekTail"} /\ abs # <<>>
            => ret'.ok /\ ret'.v = abs[Len(abs)]
       /\ ret'.op \in Inserts /\ ~(queues[1].closed /\ abs = <<>>)
                              /\ (queues[1].size = 0 \/ Len(abs) < queues[1].size)
            => ret'.ok /\ Len(abs') = Len(abs) + 1]_vars

\* C1 witness: a dequeue returned the first element of a queue that spans
\* two rings and has a retired ring above its head ring, kept for reuse
C1_Witness ==
    /\ ret.op = "dequeue" /\ ret.ok
    /\ queues[1].rings >= 2
    /\ queues[1].ring[queues[1].headRing].above # 0
    /\ Len(abs) >= 2 /\ abs[1] # abs[2]

\* C2: a queue built with size > 0 holds between 0 and size items, its
\* length is the number of items in its rings, and free = size - length, in
\* every state that direct calls and the feeders of attached sources reach.
C2_WithinSize ==
    \A q \in Queues :
        queues[q].size > 0 =>
            /\ 0 <= length(queues[q]) /\ length(queues[q]) <= queues[q].size
            /\ Len(Contents(queues[q])) = length(queues[q])
            /\ free(queues[q]) + Len(Contents(queues[q])) = queues[q].size

\* C2 witness: a bounded queue is full while a feeder with more to insert
\* waits on its free event
C2_Witness ==
    \E q \in Queues :
        /\ queues[q].size > 0 /\ length(queues[q]) = queues[q].size
        /\ Feeders(queues[q]) > 0

\* the values the feeders of D took from queue S in the last call, and the
\* values of S they inserted into D, in the order of the call
Of(l, t, D, S) ==
    LET RECURSIVE Pick(_)
        Pick(i) == IF i > Len(l) THEN <<>>
                   ELSE IF l[i].t = t /\ l[i].q = D /\ l[i].src = S
                        THEN <<l[i].v>> \o Pick(i + 1) ELSE Pick(i + 1)
    IN Pick(1)

IsPrefix(a, b) == Len(a) <= Len(b) /\ a = SubSeq(b, 1, Len(a))

\* C3: the values a destination takes from a source queue are inserted into
\* the destination in the order they were taken from the source: within a
\* call, what has been inserted is a prefix of what has been taken.
C3_SourceOrder ==
    \A S \in Queues, D \in Queues :
        IsPrefix(Of(log, "ins", D, S), Of(log, "pull", D, S))

\* C4: no value is lost: every value handed to the program is in a queue, in
\* an iterator that has not yielded it, held by a waiting asynchronous
\* feeder, or was returned to (or refused at) a direct call.
C4_NoValueLost == lost = {}

\* C5 as the claim has it: once close() has been called
\* on the queue, a direct enqueue or enqueueHead throws 'Queue is closed' and
\* changes nothing, whether or not the queue holds items.
C5_ClosedRejectsAll ==
    [][ret'.op \in Inserts /\ queues[1].closed
         => ~ret'.ok /\ ret'.e = "Queue is closed" /\ queues' = queues]_vars

\* C5 amended: once close() has been called on the queue and its length is 0,
\* a direct enqueue or enqueueHead throws 'Queue is closed' and changes
\* nothing (no transform is registered).
C5_DrainedRejects ==
    [][ret'.op \in Inserts /\ queues[1].closed /\ length(queues[1]) = 0
         => ~ret'.ok /\ ret'.e = "Queue is closed" /\ queues' = queues
            /\ log' = <<>>]_vars

\* C5 witness: an enqueueHead on a queue that was closed and then drained was
\* refused
C5_Witness ==
    /\ ret.op = "enqueueHead" /\ ~ret.ok /\ ret.e = "Queue is closed"
    /\ queues[1].closed /\ length(queues[1]) = 0
    /\ queues[1].ring[queues[1].headRing].head # 0

\* C6: once close() has been called on a queue that holds items, enqueue and
\* enqueueHead are still accepted while there is a free slot (the length
\* grows by one) and are never refused as closed; once the length is 0 each
\* of them throws 'Queue is closed'.
C6_ClosedAcceptsUntilDrained ==
    [][ret'.op \in Inserts /\ queues[1].closed
         => IF length(queues[1]) > 0
            THEN /\ ret'.e # "Queue is closed"
                 /\ ret'.ok <=> free(queues[1]) > 0
                 /\ ret'.ok => length(queues'[1]) = length(queues[1]) + 1
            ELSE ~ret'.ok /\ ret'.e = "Queue is closed"]_vars

\* C6 witness: an enqueue on a queue marked closed was accepted
C6_Witness ==
    /\ ret.op = "enqueue" /\ ret.ok
    /\ queues[1].closed /\ length(queues[1]) >= 2

\* C7: enqueue or enqueueHead on a queue with size > 0 and length = size
\* throws 'Queue is full', leaves the queue (length, items, rings, chain) as
\* it was and emits no event.
C7_FullRejects ==
    [][ret'.op \in Inserts /\ queues[1].size > 0
                           /\ length(queues[1]) = queues[1].size
         => ~ret'.ok /\ ret'.e = "Queue is full" /\ queues' = queues
            /\ log' = <<>>]_vars

\* C7 witness: an enqueueHead was refused as full on a queue whose head ring
\* is full, so that an accepted call would have linked a ring above it
C7_Witness ==
    /\ ret.op = "enqueueHead" /\ ~ret.ok /\ ret.e = "Queue is full"
    /\ RB_free(queues[1].ring[queues[1].headRing]) = 0

\* C8: dequeue, dequeueTail, peek and peekTail on a queue of length 0 throw
\* 'Queue is empty', change nothing and emit no event; peek and peekTail on a
\* queue that holds items return and change nothing.
C8_EmptyRejectsPeekReads ==
    [][/\ ret'.op \in Removals \cup Peeks /\ length(queues[1]) = 0
            => ~ret'.ok /\ ret'.e = "Queue is empty" /\ queues' = queues
               /\ log' = <<>>
       /\ ret'.op \in Peeks /\ length(queues[1]) > 0
            => ret'.ok /\ queues' = queues /\ log' = <<>>]_vars

\* C8 witness: a dequeueTail was refused on an empty queue on which close()
\* had been called
C8_Witness ==
    /\ ret.op = "dequeueTail" /\ ~ret.ok /\ ret.e = "Queue is empty"
    /\ queues[1].closed

\* the event a listener was attached for in the step
AttachedFor(ev) == Len(queues'[1].lst[ev]) = Len(queues[1].lst[ev]) + 1

C10_InsertEvents ==
    [][ret'.op \in Inserts /\ ret'.ok
         => /\ Emitted(log', 1, "data") <=> length(queues[1]) = 0
            /\ length(queues'[1]) = length(queues[1]) + 1
            /\ Emitted(log', 1, "full") <=>
                 queues[1].size > 0 /\ length(queues'[1]) = queues[1].size
            /\ Called(log', 1, "full") <=>
                 Emitted(log', 1, "full") /\ queues[1].lst["full"] # <<>>]_vars

\* C10 witness: on a queue of size 1 whose ring has been through enqueue and
\* dequeue before (its head has moved), an enqueue called the full listener
C10_Witness ==
    /\ ret.op = "enqueue" /\ ret.ok /\ Called(log, 1, "full")
    /\ queues[1].size = 1
    /\ queues[1].ring[queues[1].headRing].head # 0

\* the positions of the trace at which ev is emitted on q
EmitIdx(l, q, ev) == {i \in 1..Len(l) : l[i].t = "emit" /\ l[i].q = q /\ l[i].ev = ev}

\* C11: on a queue on which close() was called, a dequeue or dequeueTail
\* emits close exactly when it brings the length to 0, once, and after its
\* empty event; close() emits close exactly when the length is 0, and on a
\* queue that holds items it emits nothing.
C11_CloseWhenDrained ==
    [][/\ ret'.op \in Removals /\ ret'.ok
            => /\ Emitted(log', 1, "close") <=>
                    queues[1].closed /\ length(queues'[1]) = 0
               /\ Cardinality(EmitIdx(log', 1, "close")) <= 1
               /\ \A i \in EmitIdx(log', 1, "close") :
                    \E j \in EmitIdx(log', 1, "empty") : j < i
       /\ ret'.op = "close"
            => /\ ret'.ok /\ queues'[1].closed
               /\ Emitted(log', 1, "close") <=> length(queues[1]) = 0
               /\ length(queues[1]) > 0 => log' = <<>>]_vars

\* C11 witness: a dequeueTail took the last item of a queue on which close()
\* had been called, and the caller's close listener ran in it
C11_Witness ==
    /\ ret.op = "dequeueTail" /\ ret.ok /\ queues[1].closed
    /\ length(queues[1]) = 0
    /\ Called(log, 1, "close")

\* C12: on a queue on which close() was not called, a dequeue or
\* dequeueTail that returns leaves a free slot (always, for an unbounded
\* queue) and emits free exactly once, after its empty event when it emits
\* both.
C12_FreeOnRemoval ==
    [][ret'.op \in Removals /\ ret'.ok /\ ~queues[1].closed
         => /\ free(queues'[1]) > 0
            /\ queues[1].size > 0 => length(queues'[1]) < queues[1].size
            /\ Cardinality(EmitIdx(log', 1, "free")) = 1
            /\ \A i \in EmitIdx(log', 1, "free"), j \in EmitIdx(log', 1, "empty") :
                 j < i]_vars

\* C12 witness: a dequeue left one item in a queue of size 3, and the
\* caller's free listener ran in it
C12_Witness ==
    /\ ret.op = "dequeue" /\ ret.ok /\ ~queues[1].closed
    /\ queues[1].size = 3 /\ length(queues[1]) = 1
    /\ Called(log, 1, "free")

\* C13: after close() was called on the queue no dequeue or dequeueTail
\* emits free, whether or not it leaves free slots or items.
C13_NoFreeAfterClose ==
    [][ret'.op \in Removals /\ queues[1].closed
         => ~Emitted(log', 1, "free") /\ ~Called(log', 1, "free")]_vars

\* C13 witness: a dequeue on a queue on which close() had been called left
\* an item and a free slot, and the registered free listener was not called
C13_Witness ==
    /\ ret.op = "dequeue" /\ ret.ok /\ queues[1].closed
    /\ length(queues[1]) > 0 /\ free(queues[1]) > 0
    /\ queues[1].lst["free"] # <<>>
    /\ ~Called(log, 1, "free")

\* C14: a listener attached for free after close() was called on the queue
\* is not called at the attachment.
C14_NoFreeCallAfterClose ==
    [][ret'.op = "on" /\ AttachedFor("free") /\ queues[1].closed
         => ~Called(log', 1, "free")]_vars

\* C15: close() on a queue that is already closed and drained does not call
\* the close listeners registered on it again.
C15_CloseListenersOnce ==
    [][ret'.op = "close" /\ closed(queues[1]) /\ queues[1].lst["close"] # <<>>
         => ~Called(log', 1, "close")]_vars

\* C16: the closed flag is never reset, and a queue whose closed attribute
\* reads true (close() was called and the length is 0) keeps length 0 and
\* closed true through every later call: direct insertion, attached
\* sources, transform output, listeners running inside a removal.
C16_ClosedAbsorbing ==
    [][\A q \in Queues :
         /\ queues[q].closed => queues'[q].closed
         /\ closed(queues[q]) <=> queues[q].closed /\ length(queues[q]) = 0
         /\ queues[q].closed /\ length(queues[q]) = 0
              => queues'[q].closed /\ length(queues'[q]) = 0]_vars

\* C16 witness: an enqueue on a closed and drained queue that has a
\* transform was taken, and the output of the transform was refused
C16_Witness ==
    \E q \in Queues :
        /\ ret.op = "enqueue" /\ ret.q = q /\ ret.ok
        /\ closed(queues[q]) /\ queues[q].transforms # <<>>
        /\ \E i \in 1..Len(log) :
             log[i].t = "reject" /\ log[i].q = q /\ log[i].ev = "Queue is closed"

\* the feeders of synchronous iterators that wait on the free event of Q
\* with values left, and the other feeders waiting there
IterWaiting(Q) ==
    {i \in 1..Len(Q.lst["free"]) :
        Q.lst["free"][i].k = "feed" /\ Q.lst["free"][i].src = 0
        /\ Q.lst["free"][i].rest # <<>>}

\* C17: what the feeder of a synchronous iterator pulls it inserts in the
\* same call (the values inserted from iterators are the values pulled from
\* them); and when such a feeder is the one feeder waiting on a queue on
\* which close() was not called, a dequeue that returns has inserted the
\* next value of the iterator.
C17_IteratorFeeds ==
    [][\A q \in Queues :
         /\ Of(log', "ins", q, 0) = Of(log', "pull", q, 0)
         /\ (/\ ret'.op = "dequeue" /\ ret'.q = q /\ ret'.ok
             /\ ~queues[q].closed
             /\ Len(queues[q].lst["free"]) = 1 /\ IterWaiting(queues[q]) = {1})
              => Of(log', "ins", q, 0) # <<>>
                 /\ Of(log', "ins", q, 0)[1] = Head(queues[q].lst["free"][1].rest)]_vars

\* the values in the rings of the queues
InRings(qs) ==
    (UNION {UNION {Range(qs[q].ring[i].buffer) : i \in Reach(qs[q])} : q \in DOMAIN qs}) \ {0}

\* C18: an asynchronous feeder has at most one pulled value in flight.  It
\* takes the next value from its iterator only when it holds none, and one
\* value in a step; a value it holds because the queue was full stays held,
\* with nothing further pulled, until a step in which it is inserted, to stay
\* in the queue or to be taken on by a listener of that insert (it
\* waits only on a queue that is full or on which close() was called, where
\* no free event comes).
C18_OneInFlight ==
    [][\A t \in 1..NTasks :
         /\ (tasks[t].st \in {"pull", "wait"} /\ tasks'[t].rest # tasks[t].rest)
              => /\ tasks[t].st = "pull" /\ tasks[t].val = 0
                 /\ tasks'[t].rest = Tail(tasks[t].rest)
                 /\ tasks'[t].val \in {0, Head(tasks[t].rest)}
         /\ (tasks[t].st = "wait" /\ tasks'[t] # tasks[t])
              => /\ tasks[t].val # 0
                 /\ tasks'[t] = [tasks[t] EXCEPT !.st = "pull", !.val = 0]
                 /\ tasks[t].val \in InRings(queues') \cup lost'
                 /\ tasks[t].val \notin InRings(queues)
         /\ tasks'[t].st = "wait"
              => /\ tasks'[t].val # 0
                 /\ free(queues'[tasks'[t].dst]) = 0 \/ queues'[tasks'[t].dst].closed]_vars

\* C18 witness: a dequeue made room, and the value an asynchronous feeder
\* was holding went into the queue while the iterator has more to give
C18_Witness ==
    \E t \in 1..NTasks :
        /\ ret.op = "dequeue" /\ ret.ok /\ ret.q = tasks[t].dst
        /\ tasks[t].st = "pull" /\ tasks[t].rest # <<>>
        /\ Head(tasks[t].rest) - 1 \in InRings(queues)

\* C19: between calls, a queue D that has the queue S attached as a source,
\* and on which close() was not called, is full whenever S holds an item:
\* what is in S at the attachment or comes into S later goes on into D as
\* soon as D has room.
C19_SourceDrains ==
    \A S \in DOMAIN queues, D \in DOMAIN queues :
        (Attached(S, D) /\ ~queues[D].closed /\ length(queues[S]) > 0)
            => free(queues[D]) = 0

\* S is attached to D as a source in the queues qs
AttachedIn(qs, S, D) ==
    \E i \in 1..Len(qs[S].lst["data"]) :
        qs[S].lst["data"][i].k = "data" /\ qs[S].lst["data"][i].dst = D

\* C20: for a queue D with the queue S attached as a source: while S is
\* closed and drained (also when it was already at the attachment) close()
\* has been called on D, so that the closed attribute of D is true once D is
\* drained; the call after which D is closed and drained emits close on D;
\* and close() comes to D from nowhere but a close() call on D itself or a
\* source of D that is closed and drained.
C20_ClosePropagates ==
    [][\A D \in Queues :
         /\ \A S \in Queues :
               (AttachedIn(queues', S, D) /\ closed(queues'[S]))
                   => /\ queues'[D].closed
                      /\ length(queues'[D]) = 0 => closed(queues'[D])
         /\ ((\E S \in Queues : AttachedIn(queues', S, D))
              /\ closed(queues'[D]) /\ ~closed(queues[D]))
                => Emitted(log', D, "close")
         /\ (queues'[D].closed /\ ~queues[D].closed
              /\ ~(ret'.op = "close" /\ ret'.q = D))
                => \E S \in Queues : AttachedIn(queues', S, D) /\ closed(queues'[S])]_vars

\* C20 witness: close() on the drained source S closed the drained queue D
\* it is attached to, and the close listeners of D were notified
C20_Witness ==
    \E S \in Queues, D \in Queues :
        /\ AttachedIn(queues, S, D)
        /\ ret.op = "close" /\ ret.ok /\ ret.q = S
        /\ closed(queues[S]) /\ closed(queues[D])
        /\ Emitted(log, D, "close")

\* C21: close() on a queue that is fed from a source does not end the
\* feeding: a dequeue that makes room on a queue on which close() was called,
\* while the feeder of an iterator waits on it with values left, inserts the
\* next value of that iterator.
C21_FeedsAfterClose ==
    [][\A q \in DOMAIN queues :
         (/\ ret'.op = "dequeue" /\ ret'.q = q /\ ret'.ok
          /\ queues[q].closed
          /\ Len(queues[q].lst["free"]) = 1 /\ IterWaiting(queues[q]) = {1})
            => /\ Of(log', "ins", q, 0) # <<>>
               /\ Of(log', "ins", q, 0)[1] = Head(queues[q].lst["free"][1].rest)]_vars

\* C22: a feeder suspended for space ends when its destination is closed:
\* on a queue that is closed and drained no feeder is registered for the free
\* event and no asynchronous feeder holds a value for it.
C22_FeedersEnd ==
    \A q \in DOMAIN queues :
        closed(queues[q])
            => /\ Feeders(queues[q]) = 0
               /\ \A t \in 1..NTasks : ~(tasks[t].st = "wait" /\ tasks[t].dst = q)

\* the outputs of the steps trs for the value v: v goes through the oldest
\* step, and each value that step gives goes through the steps after it
RECURSIVE Pipeline(_, _)
Pipeline(trs, v) ==
    IF trs = <<>> THEN <<v>>
    ELSE LET o == CASE Head(trs) = "gen" -> <<v, v + 10>>
                    [] Head(trs) = "dbl" -> <<2 * v>>
                    [] OTHER -> <<v + 10>>
         IN IF Len(o) = 1 THEN Pipeline(Tail(trs), o[1])
            ELSE Pipeline(Tail(trs), o[1]) \o Pipeline(Tail(trs), o[2])

RECURSIVE PipelineAll(_, _)
PipelineAll(trs, vs) ==
    IF vs = <<>> THEN <<>> ELSE Pipeline(trs, Head(vs)) \o PipelineAll(trs, Tail(vs))

Rev(s) == [i \in 1..Len(s) |-> s[Len(s) + 1 - i]]

\* what the feeders waiting on the queue Q have still to insert, in the
\* order of the feeders: the value and the end it goes to
RECURSIVE Pending(_, _)
Pending(Q, i) ==
    IF i > Len(Q.lst["free"]) THEN <<>>
    ELSE LET l == Q.lst["free"][i]
             vs == IF l.k # "feed" THEN <<>>
                   ELSE IF l.at THEN PipelineAll(Q.transforms, l.rest) ELSE l.rest
         IN [j \in 1..Len(vs) |-> [v |-> vs[j], fwd |-> l.fwd]] \o Pending(Q, i + 1)

\* the queue had c and the pending values p; the values outs come to the
\* tail (fwd) or the head: as many as there is room for go in, one by one,
\* the others wait behind p
Arrived(Q, R, outs, fwd) ==
    LET n == IF free(Q) < Len(outs) THEN free(Q) ELSE Len(outs)
        in == SubSeq(outs, 1, n)
    IN /\ Contents(R) = IF fwd THEN Contents(Q) \o in ELSE Rev(in) \o Contents(Q)
       /\ Pending(R, 1) = Pending(Q, 1) \o
                           [j \in 1..(Len(outs) - n) |-> [v |-> outs[n + j], fwd |-> fwd]]

\* C23: with transforms registered, enqueue(v) puts the outputs of the
\* pipeline for v (oldest step first, each value of a generator step going
\* separately through the later steps) at the tail in the order they are
\* produced, enqueueHead(v) puts them one by one at the head, and the values
\* of an attached iterator go the same way; nothing goes through the
\* pipeline twice: what does not fit waits and comes in, as it is, when a
\* dequeue makes room; and values wait only while the queue is full.
C23_Pipeline ==
    [][LET Q == queues[1]
           R == queues'[1]
       IN /\ (Q.transforms # <<>> /\ ret'.op = "enqueue" /\ stamp' = stamp + 1)
               => Arrived(Q, R, Pipeline(Q.transforms, stamp'), TRUE)
          /\ (Q.transforms # <<>> /\ ret'.op = "enqueueHead")
               => Arrived(Q, R, Pipeline(Q.transforms, stamp'), FALSE)
          /\ (ret'.op = "enqueue" /\ stamp' > stamp + 1)
               => Arrived(Q, R, PipelineAll(Q.transforms, Stamps(stamp' - stamp)), TRUE)
          /\ (ret'.op = "dequeue" /\ Pending(Q, 1) # <<>>)
               => /\ ret'.ok /\ ret'.v = Head(Contents(Q))
                  /\ Contents(R) = IF Pending(Q, 1)[1].fwd
                                   THEN Tail(Contents(Q)) \o <<Pending(Q, 1)[1].v>>
                                   ELSE <<Pending(Q, 1)[1].v>> \o Tail(Contents(Q))
                  /\ Pending(R, 1) = Tail(Pending(Q, 1))
          /\ Pending(R, 1) # <<>> => free(R) = 0]_vars

\* C23 witness: a value went through a generator step and a later plain
\* step at enqueueHead, and its two outputs are at the head, last first
C23_Witness ==
    /\ ret.op = "enqueueHead" /\ ret.ok
    /\ queues[1].transforms = <<"gen", "dbl">>
    /\ Len(Contents(queues[1])) >= 3
    /\ SubSeq(Contents(queues[1]), 1, 2) = <<2 * stamp + 20, 2 * stamp>>

\* C24: a for-of loop over a queue without sources, run to its end, gets
\* the items the queue held, head to tail, and leaves the queue empty; a
\* second loop gets nothing.
C24_IterateDrains ==
    [][ret'.op = "iterate"
         => /\ ret'.ok
            /\ abs' = Contents(queues[1])
            /\ length(queues'[1]) = 0 /\ Contents(queues'[1]) = <<>>
            /\ ret.op = "iterate" => abs' = <<>>]_vars

\* C24 witness: the loop got two items of which the later one was put at
\* the head
C24_Witness ==
    /\ ret.op = "iterate" /\ ret.ok
    /\ Len(abs) >= 2 /\ abs[1] > abs[2]
    /\ length(queues[1]) = 0

\* the rings from firstRing along nextRing, at most n of them
RECURSIVE Along(_, _, _)
Along(P, i, n) ==
    IF i = 0 \/ n = 0 THEN <<>>
    ELSE IF i = P.lastRing THEN <<i>>
    ELSE <<i>> \o Along(P, P.ring[i].nextRing, n - 1)

\* C25: the values pop and shift return are those of the deque that push,
\* unshift, pop and shift describe, also when a ring retired at one end is
\* taken from the spare at the other; they return undefined only from an
\* empty queue; and firstRing and lastRing are the two ends of one chain of
\* `rings` rings, one at least.
C25_SpareRefinesDeque ==
    [][/\ ret'.op = "shift"
           => ret'.v = IF abs = <<>> THEN 0 ELSE Head(abs)
       /\ ret'.op = "pop"
           => ret'.v = IF abs = <<>> THEN 0 ELSE abs[Len(abs)]
       /\ (ret'.op \in {"pop", "shift"} /\ ret'.v = 0) => queues[1].items = 0
       /\ queues'[1].items = Len(abs')
       /\ LET c == Along(queues'[1], queues'[1].firstRing, NRings)
          IN /\ c # <<>> /\ c[Len(c)] = queues'[1].lastRing
             /\ Len(c) = queues'[1].rings]_vars

\* C26: lifetimeIn is the number of values that were inserted and
\* lifetimeOut the number of values that were removed, with and without a
\* TTL.
C26_LifetimeCounts ==
    /\ queues[1].lifetimeIn = abs.in
    /\ queues[1].lifetimeOut = abs.out

\* C27: with a TTL set the queue is closed from the insertion on with which
\* the number of values inserted in its life reaches the TTL, and that
\* insertion emits ttl-in; until then only close() without a TTL closes it.
C27_ClosesAtTTL ==
    [][/\ (queues'[1].ttl > 0 /\ abs'.in >= queues'[1].ttl) => queues'[1].closed
       /\ (queues[1].ttl > 0 /\ abs.in < queues[1].ttl /\ abs'.in >= queues[1].ttl)
            => Emitted(log', 1, "ttl-in")
       /\ (queues'[1].closed /\ ~queues[1].closed /\ ret'.op # "close")
            => queues'[1].ttl > 0 /\ abs'.in >= queues'[1].ttl]_vars

\* C28: pushAsync and unshiftAsync return a promise, whatever the state of
\* the queue: they do not throw and do not return undefined.
C28_ReturnsPromise ==
    [][ret'.op \in {"pushAsync", "unshiftAsync"}
         => ret'.ok /\ ret'.e # "undefined"]_vars

\* the items of the queue of the variant, first to last, read off the rings
Items(P) == Flatten(P, Along(P, P.firstRing, NRings))

\* C29: push(v1..vk) and unshift(v1..vk) insert the k values or fail and
\* leave the queue as it was: push puts them at the end in the order given,
\* and a call that throws has inserted nothing.
C29_AllOrNothing ==
    [][ret'.op \in {"push", "unshift"}
         => IF ret'.ok
            THEN /\ queues'[1].items = queues[1].items + (stamp' - stamp)
                 /\ ret'.op = "push"
                      => Items(queues'[1]) = Items(queues[1]) \o Stamps(stamp' - stamp)
            ELSE /\ queues'[1].items = queues[1].items
                 /\ Items(queues'[1]) = Items(queues[1])
                 /\ queues'[1].closed = queues[1].closed
                 /\ queues'[1].lifetimeIn = queues[1].lifetimeIn]_vars

\* C30: a removal from a queue that holds an item returns the item: nothing
\* that runs inside its empty, close and free notifications (feeders,
\* transforms, the closing of a destination) throws at its caller.
C30_RemovalReturns ==
    [][\A q \in DOMAIN queues :
         (ret'.op \in Removals /\ ret'.q = q /\ length(queues[q]) > 0)
            => ret'.ok /\ ret'.v = Head(Contents(queues[q]))]_vars

\* C31: enqueue(v) and enqueueHead(v) of a plain value on a queue whose
\* length is its size, or on a closed and drained queue, throw 'Queue is
\* full' or 'Queue is closed' at the call, with or without transform steps,
\* and the value is nowhere in the program afterwards (nothing inserts it
\* later).
C31_ThrowsAtCall ==
    [][(/\ ret'.op \in Inserts /\ stamp' = stamp + 1
        /\ \/ queues[1].size > 0 /\ length(queues[1]) = queues[1].size
           \/ closed(queues[1]))
          => /\ ~ret'.ok /\ ret'.e \in {"Queue is full", "Queue is closed"}
             /\ stamp + 1 \notin Places(queues', tasks')]_vars

\* the feeders of the generator of queue S that wait on the free event of Q
FeedersOf(Q, S) ==
    {i \in 1..Len(Q.lst["free"]) : Q.lst["free"][i].k = "feed" /\ Q.lst["free"][i].src = S}

\* C32: for a queue S attached as a source of D, at most one feeder for S is
\* registered on the free event of D at any time, whatever was inserted into
\* S and removed from S and D.
C32_OneFeederPerSource ==
    \A S \in DOMAIN queues, D \in DOMAIN queues :
        Attached(S, D) => Cardinality(FeedersOf(queues[D], S)) <= 1

\* ------------------------------------------------ specification: the feed
\* One bounded queue fed by iterators only (the "iterate in" test of
\* test.js): enqueue(it, true) with iterators of distinct values (the next
\* stamps), dequeue and dequeueTail.  abs is the sequence of the values the
\* feeders inserted, in the order of their insertion.
InitFeed ==
    /\ \E sz \in 1..FlowMaxSize, rs \in 1..MaxRingSize : queues = <<Spique(sz, rs)>>
    /\ Idle

Fed(given) ==
    /\ stamp' = stamp + Cardinality(given)
    /\ abs' = abs \o Of(log', "ins", 1, 0)
    /\ lost' = lost \cup Vanished(given)

FdAttachIter ==
    \E n \in 1..MaxIter :
        /\ stamp + n <= MaxFed
        /\ Feeders(queues[1]) < MaxFeeders
        /\ Attach(1, IterSource(Stamps(n)), TRUE)
        /\ Fed(Range(Stamps(n)))

FdDequeue == Dequeue(1) /\ Fed({})

FdDequeueTail == DequeueTail(1) /\ Fed({})

NextFeed == FdAttachIter \/ FdDequeue \/ FdDequeueTail

SpecFeed == InitFeed /\ [][NextFeed]_vars

\* the values the iterators attached to Q have still to yield
Unfed(Q) ==
    UNION {Range(Q.lst["free"][i].rest) : i \in IterWaiting(Q)}

\* C33: iterators attached in turn to one bounded queue with
\* enqueue(it, true) are fed in the order of their attachment: the values
\* come into the queue in the order the iterators were attached and yield
\* them, whatever a feeder still has to yield comes after everything that
\* was inserted, and no value is dropped, however dequeue and dequeueTail
\* interleave.
C33_IteratorsInTurn ==
    /\ \A i \in 1..Len(abs), j \in 1..Len(abs) : i < j => abs[i] < abs[j]
    /\ \A w \in Range(abs), v \in Unfed(queues[1]) : w < v
    /\ Range(abs) \cup Unfed(queues[1]) = 1..stamp
    /\ lost = {}

\* C33 witness: two iterators waited on the full queue, and a removal has
\* let the second one insert its first value after the last value of the
\* first, with more to come
C33_Witness ==
    /\ ret.op \in Removals /\ ret.ok
    /\ Len(abs) >= 3
    /\ Of(log, "ins", 1, 0) = <<abs[Len(abs)]>>
    /\ abs[Len(abs)] > MaxIter
    /\ Unfed(queues[1]) # {}

\* the smallest number of rings of n slots that hold k items
RingsFor(k, n) == (k + n - 1) \div n

\* the queue holds 1..n from the first slot of its head ring on: it was
\* built from a fresh queue by enqueue alone
OnlyEnqueued(Q, n) ==
    /\ Contents(Q) = [i \in 1..n |-> i]
    /\ Q.ring[Q.headRing].head = 0
    /\ Q.ring[Q.headRing].above = 0

\* C34: an insertion or a removal changes the number of rings by one at
\* most, and the rings counter is the number of rings on the chain; a queue
\* filled from fresh by k enqueues has the rings these k items need (two for
\* ringSize + 1); and whenever the length is 0 the chain is one ring.
C34_GrowsAndShrinks ==
    [][LET Q == queues[1]
           R == queues'[1]
       IN /\ R.rings = Len(Chain(R))
          /\ ret'.op \in Inserts \cup Removals
               => R.rings - Q.rings \in {-1, 0, 1}
          /\ OnlyEnqueued(R, stamp') /\ stamp' > 0 => R.rings = RingsFor(stamp', R.ringSize)
          /\ length(R) = 0 => R.rings = 1 /\ R.headRing = R.tailRing]_vars

\* C34 witness: ringSize + 1 values were enqueued into a fresh queue, which
\* made a second ring, and the last of them has been dequeued: the retired
\* ring hangs above the one ring left
C34_Witness ==
    /\ ret.op = "dequeue" /\ ret.ok
    /\ stamp = queues[1].ringSize + 1 /\ ret.v = stamp
    /\ length(queues[1]) = 0 /\ queues[1].rings = 1
    /\ queues[1].ring[queues[1].headRing].above # 0

\* the chain of Q is sound: it leads from headRing to tailRing, the rings
\* counter is its length, its rings hold the items of the queue, the two
\* ends are one ring when it is one ring, and none of several rings is empty
ChainSound(Q) ==
    LET ch == Chain(Q)
    IN /\ Len(ch) >= 1 /\ ch[1] = Q.headRing /\ ch[Len(ch)] = Q.tailRing
       /\ Q.rings = Len(ch) /\ Q.rings >= 1
       /\ length(Q) = Len(Contents(Q))
       /\ Q.rings = 1 => Q.headRing = Q.tailRing
       /\ Q.rings > 1 => \A i \in 1..Len(ch) : Q.ring[ch[i]].items > 0

\* C35: in every state the length is the sum of the lengths of the rings on
\* the chain from headRing to tailRing, the rings counter is the number of
\* rings on that chain and at least 1, headRing = tailRing when it is 1, and
\* no ring on a chain of several is empty; a ring leaves the chain exactly
\* when it becomes empty and is not the sole ring.
C35_ChainInvariant ==
    [][LET Q == queues[1]
           R == queues'[1]
       IN /\ ChainSound(Q) /\ ChainSound(R)
          /\ \A r \in Range(Chain(Q)) :
               r \notin Range(Chain(R)) <=> (R.ring[r].items = 0 /\ Q.rings > 1)]_vars

\* C35 witness: dequeueTail emptied the tail ring of a chain of three rings
\* and took it off the chain: two rings are left, none empty, and the
\* retired ring hangs below the tail ring
C35_Witness ==
    /\ ret.op = "dequeueTail" /\ ret.ok
    /\ queues[1].rings = 2 /\ length(queues[1]) = 2
    /\ queues[1].headRing # queues[1].tailRing
    /\ queues[1].ring[queues[1].tailRing].below # 0

\* ------------------------------------------------ specification: the ring
\* One ring buffer of part_001 on its own, of capacity 1..MaxLen, with values
\* drawn from 1..NumVals: push, unshift, pop, shift, peek and peekStart,
\* beside the abstract sequence `abs` the same calls build.  queues[1] is the
\* ring object.
InitRing ==
    /\ \E n \in 1..MaxLen : queues = <<RingBuffer(n)>>
    /\ Idle

\* the call ended as p says: the ring after it, the value returned or the
\* error thrown
RingCall(p, op, e) ==
    /\ queues' = <<p.r>>
    /\ ret' = [op |-> op, q |-> 1, ok |-> p.ok, v |-> p.v,
               e |-> IF p.ok THEN "" ELSE e]
    /\ UNCHANGED <<tasks, log, stamp, lost>>

RbPush ==
    \E v \in 1..NumVals :
        /\ RingCall(RB_push(queues[1], v), "push", "Buffer is full")
        /\ abs' = IF Len(abs) < RB_size(queues[1]) THEN Append(abs, v) ELSE abs

RbUnshift ==
    \E v \in 1..NumVals :
        /\ RingCall(RB_unshift(queues[1], v), "unshift", "Buffer is full")
        /\ abs' = IF Len(abs) < RB_size(queues[1]) THEN <<v>> \o abs ELSE abs

RbPop ==
    /\ RingCall(RB_pop(queues[1]), "pop", "No items in buffer")
    /\ abs' = IF abs = <<>> THEN abs ELSE Front(abs)

RbShift ==
    /\ RingCall(RB_shift(queues[1]), "shift", "No items in buffer")
    /\ abs' = IF abs = <<>> THEN abs ELSE Tail(abs)

RbPeek ==
    /\ RingCall(RB_peek(queues[1]), "peek", "No items in buffer")
    /\ UNCHANGED abs

RbPeekStart ==
    /\ RingCall(RB_peekStart(queues[1]), "peekStart", "No items in buffer")
    /\ UNCHANGED abs

NextRing == RbPush \/ RbUnshift \/ RbPop \/ RbShift \/ RbPeek \/ RbPeekStart

SpecRing == InitRing /\ [][NextRing]_vars

\* C36: the ring buffer of capacity N refines a deque of at most N elements:
\* after every call the occupied slots, read from head on, are the abstract
\* sequence; 0 <= length <= N and 0 <= head < N; a call succeeds exactly
\* when the abstract deque allows it, shift and peekStart return its first
\* element, pop and peek its last; push and unshift on a full ring and pop,
\* shift, peek and peekStart on an empty ring throw and leave head, length
\* and all slots as they were, and the peeks never change the ring.
C36_RingRefinesDeque ==
    [][LET r == queues[1]
           r2 == queues'[1]
           N == RB_size(r)
       IN /\ RingItems(r2) = abs' /\ r2.items = Len(abs')
          /\ 0 <= r2.items /\ r2.items <= N /\ 0 <= r2.head /\ r2.head < N
          /\ RB_size(r2) = N
          /\ ret'.op \in {"push", "unshift"} => (ret'.ok <=> Len(abs) < N)
          /\ ret'.op \in {"pop", "shift", "peek", "peekStart"} => (ret'.ok <=> abs # <<>>)
          /\ ret'.ok /\ ret'.op \in {"shift", "peekStart"} => ret'.v = Head(abs)
          /\ ret'.ok /\ ret'.op \in {"pop", "peek"} => ret'.v = abs[Len(abs)]
          /\ ~ret'.ok => r2 = r
          /\ ~ret'.ok /\ ret'.op \in {"push", "unshift"} => ret'.e = "Buffer is full"
          /\ ~ret'.ok /\ ret'.op \notin {"push", "unshift"} => ret'.e = "No items in buffer"
          /\ ret'.op \in {"peek", "peekStart"} => r2 = r]_vars

\* C36 witness: shift took the first element out of a ring whose items wrap
\* round the end of the array, and two different values are left
C36_Witness ==
    /\ ret.op = "shift" /\ ret.ok
    /\ queues[1].head + queues[1].items > RB_size(queues[1])
    /\ Len(abs) >= 2 /\ abs[1] # abs[2]

\* the errors of the ring buffer
RingErrors == {"Buffer is full", "No items in buffer"}

\* C37: no call on the queue ends with an error of the ring buffer ('Buffer
\* is full', 'No items in buffer'), thrown at the caller or inside an
\* attachSource: the queue pushes and unshifts on a ring with a free slot
\* only (the tail ring, the head ring, or the retired ring it takes back
\* when that one is full), and shifts, pops and peeks on a ring with items
\* only.
C37_RingErrorsInside ==
    /\ ret.e \notin RingErrors
    /\ \A i \in 1..Len(log) : log[i].t = "reject" => log[i].ev \notin RingErrors
    /\ \A q \in DOMAIN queues :
         /\ length(queues[q]) > 0 => /\ queues[q].ring[queues[q].headRing].items > 0
                                     /\ queues[q].ring[queues[q].tailRing].items > 0
         /\ \A b \in {queues[q].ring[queues[q].tailRing].below,
                      queues[q].ring[queues[q].headRing].above} \ {0} :
              RB_free(queues[q].ring[b]) > 0

\* C37 witness: enqueue found the tail ring full and put its value into a
\* new ring below it
C37_Witness ==
    /\ ret.op = "enqueue" /\ ret.ok
    /\ queues[1].rings >= 2
    /\ queues[1].ring[queues[1].tailRing].items = 1
    /\ RB_free(queues[1].ring[queues[1].ring[queues[1].tailRing].above]) = 0

\* the value at the end of the queue a closure of pending inserts at
AtItsEnd(P, c) ==
    LET r == IF c.insert = "push" THEN P.ring[P.lastRing] ELSE P.ring[P.firstRing]
    IN /\ r.items > 0
       /\ c.value = IF c.insert = "push" THEN RingItems(r)[r.items] ELSE RingItems(r)[1]

\* C38: every value left pending on a full queue is inserted, in
\* the order of the calls, inside the pop or shift that frees its slot,
\* whatever happened to the queue in between; between calls a non-empty
\* pending list implies a full queue, and a direct push or unshift is
\* refused while a value is pending.
C38_PendingInserted ==
    [][LET P == queues[1]
           R == queues'[1]
       IN /\ R.pending # <<>> => R.items = R.maxItems
          /\ (ret'.op \in {"push", "unshift"} /\ P.pending # <<>>) => ~ret'.ok
          /\ (ret'.op \in {"pop", "shift"} /\ ret'.v # 0 /\ P.pending # <<>>)
               => /\ R.pending = Tail(P.pending) /\ R.items = P.items
                  /\ AtItsEnd(R, Head(P.pending))]_vars

\* C39: a close(ttl) that throws ('Attempted to set TTL lower than lifetime
\* inserts') changes nothing: the ttl, the closed flag, the two lifetime
\* counters and the items are after the call what they were before it.
C39_FailedCloseNoChange ==
    [][(ret'.op = "close" /\ ~ret'.ok)
         => /\ queues'[1].ttl = queues[1].ttl
            /\ queues'[1].closed = queues[1].closed
            /\ queues'[1].lifetimeIn = queues[1].lifetimeIn
            /\ queues'[1].lifetimeOut = queues[1].lifetimeOut
            /\ queues'[1].items = queues[1].items]_vars
====
